---- MODULE Spec2Model ----
(***************************************************************************)
(* Model of the signals-systems-simulator core and of its main window:    *)
(*   core/signal_generator.py  SignalGenerator (fs, duration, t; generate, *)
(*                             set_parameters)                             *)
(*   core/system_analyzer.py   SystemAnalyzer (fs; create_system,          *)
(*                             impulse_response, step_response,            *)
(*                             frequency_response, apply_system)           *)
(* Sample values are exact numbers, (n/d) * 10^e.  Where the rounding of a *)
(* float decides an outcome (the number of samples int(fs * duration), the *)
(* sample an impulse lands on, the band and cutoff guards of               *)
(* create_system, the number of output samples of dlsim) the operation is  *)
(* carried out on IEEE 754 doubles.  Values the program obtains from       *)
(* transcendental functions (sin, exp, the Butterworth coefficients) are   *)
(* kept as symbolic terms.                                                 *)
(***************************************************************************)
EXTENDS Integers, Sequences, FiniteSets, TLC

\* gen, analyzer: the SignalGenerator and the SystemAnalyzer; call, ret: the
\* last call and its result; heap: the array objects of the run where storage
\* matters; gui: the widgets of the main window
VARIABLES gen, analyzer, call, ret, heap, gui

vars == <<gen, analyzer, call, ret, heap, gui>>

(***************************************************************************)
(* Bounds of the model.                                                    *)
(***************************************************************************)
\* largest sampling rate (Hz) given to a SignalGenerator
MaxFs == 4
\* durations given to a SignalGenerator are k/4 seconds, k in 0..MaxDurNum
MaxDurNum == 4
\* sampling rates given to a SystemAnalyzer are 10*k Hz, k in 1..MaxFsTens, and three more
MaxFsTens == 3
\* largest Butterworth order requested
MaxOrder == 2
\* largest moving-average window requested
MaxWindow == 3
\* longest coefficient array given to the responses
MaxCoefLen == 2
\* longest time vector and input signal given to the responses
MaxT == 3
\* largest number of frequency points requested
MaxPoints == 4
\* largest number of Signals a caller keeps
MaxHeld == 2
\* largest number of array objects of a run
MaxObjects == 4

(***************************************************************************)
(* Exact numbers: [n, d, e] is (n/d) * 10^e, d > 0, gcd(n, d) = 1.         *)
(* d = 0 is the result of a floating-point division by zero (inf or nan).  *)
(***************************************************************************)
AbsInt(i) == IF i < 0 THEN -i ELSE i

SignInt(i) == IF i < 0 THEN -1 ELSE IF i = 0 THEN 0 ELSE 1

MinInt(i, j) == IF i <= j THEN i ELSE j

MaxInt(i, j) == IF i >= j THEN i ELSE j

RECURSIVE GCD(_, _)
GCD(i, j) == IF j = 0 THEN i ELSE GCD(j, i % j)

RECURSIVE Pow10(_)
Pow10(k) == IF k <= 0 THEN 1 ELSE 10 * Pow10(k - 1)

\* n/d with d > 0 in lowest terms, g being gcd(n, d)
Lowest(n, d, g, e) ==
  IF n = 0 THEN [n |-> 0, d |-> 1, e |-> 0]
  ELSE [n |-> n \div g, d |-> d \div g, e |-> e]

Positive(n, d, e) == Lowest(n, d, GCD(AbsInt(n), d), e)

Norm(n, d, e) == Positive(IF d < 0 THEN -n ELSE n, AbsInt(d), e)

\* the integer i
Int2Num(i) == [n |-> i, d |-> 1, e |-> 0]

\* the fraction i/j
Frac(i, j) == Norm(i, j, 0)

\* the decimal literal m e k, as in the text "1e-13"
Dec(m, k) == IF m = 0 THEN Int2Num(0) ELSE [n |-> m, d |-> 1, e |-> k]

Zero == Int2Num(0)

One == Int2Num(1)

IsZero(x) == x.n = 0 /\ x.d # 0

\* x + y at the exponent E of the smaller of the two
AddAt(x, y, E) ==
  Norm(x.n * Pow10(x.e - E) * y.d + y.n * Pow10(y.e - E) * x.d, x.d * y.d, E)

Add(x, y) == AddAt(x, y, MinInt(x.e, y.e))

Neg(x) == [x EXCEPT !.n = -x.n]

Sub(x, y) == Add(x, Neg(y))

Mul(x, y) == Norm(x.n * y.n, x.d * y.d, x.e + y.e)

\* x / y in floating point: a zero divisor gives inf (n = +-1) or nan (n = 0)
Div(x, y) ==
  IF y.n = 0 THEN [n |-> SignInt(x.n), d |-> 0, e |-> 0]
  ELSE Norm(x.n * y.d, x.d * y.n, x.e - y.e)

AbsNum(x) == [x EXCEPT !.n = AbsInt(x.n)]

\* p * 10^k < q for naturals p, q, k, without leaving the 32-bit integers
LtScaled(p, q, k) ==
  IF k > 9 THEN p = 0 /\ q > 0
  ELSE q > 0 /\ p <= (q - 1) \div Pow10(k)

\* x < y for x, y >= 0
LtNonNeg(x, y) ==
  IF x.e >= y.e THEN LtScaled(x.n * y.d, y.n * x.d, x.e - y.e)
  ELSE ~ (y.n = 0) /\ ~ LtScaled(y.n * x.d, x.n * y.d + 1, y.e - x.e)

Lt(x, y) ==
  IF x.n < 0 /\ y.n >= 0 THEN TRUE
  ELSE IF x.n >= 0 /\ y.n < 0 THEN FALSE
  ELSE IF x.n >= 0 THEN LtNonNeg(x, y)
  ELSE LtNonNeg(AbsNum(y), AbsNum(x))

Le(x, y) == ~ Lt(y, x)

Ge(x, y) == ~ Lt(x, y)

Gt(x, y) == Lt(y, x)

\* equality of values (representations may differ in the exponent)
EqNum(x, y) == ~ Lt(x, y) /\ ~ Lt(y, x)

MaxNum(x, y) == IF Lt(x, y) THEN y ELSE x

MinNum(x, y) == IF Lt(y, x) THEN y ELSE x

\* Python int(x): truncation toward zero (x an ordinary number, e = 0)
IntOf(x) ==
  IF x.n >= 0 THEN x.n \div x.d ELSE -((-x.n) \div x.d)

\* floor(x) (x an ordinary number, e = 0)
FloorOf(x) == x.n \div x.d

\* a value the model does not evaluate: f applied to its arguments
Sym(f, args) == [sym |-> f, args |-> args]

(***************************************************************************)
(* Sequences.                                                              *)
(***************************************************************************)
MapSeq(F(_), s) == [i \in 1..Len(s) |-> F(s[i])]

RECURSIVE SeqsUpTo(_, _)
SeqsUpTo(S, k) ==
  IF k = 0 THEN {<<>>}
  ELSE LET shorter == SeqsUpTo(S, k - 1)
       IN  shorter \cup {Append(s, x) : s \in {u \in shorter : Len(u) = k - 1}, x \in S}

\* Python kwargs.get(key, default)
Get(kwargs, key, default) ==
  IF key \in DOMAIN kwargs THEN kwargs[key] ELSE default

(***************************************************************************)
(* IEEE 754 doubles, for the comparisons whose outcome the rounding of the *)
(* operands decides.  A double is [neg, m, e]: the value (-1)^neg * m *    *)
(* 2^e with m a natural number below 2^53 (2^53 itself after a carry).     *)
(* Natural numbers of any size are sequences of digits in base 2^15,       *)
(* lowest first, the highest not 0; <<>> is 0.  Overflow and subnormal     *)
(* numbers do not occur for the magnitudes the program is given here.      *)
(***************************************************************************)
Base == 2 ^ 15

RECURSIVE DigitsOf(_)
DigitsOf(i) == IF i = 0 THEN <<>> ELSE <<i % Base>> \o DigitsOf(i \div Base)

RECURSIVE TrimDigits(_)
TrimDigits(a) ==
  IF Len(a) > 0 /\ a[Len(a)] = 0 THEN TrimDigits(SubSeq(a, 1, Len(a) - 1)) ELSE a

RestDigits(a) == IF Len(a) = 0 THEN a ELSE Tail(a)

LowDigit(a) == IF Len(a) = 0 THEN 0 ELSE a[1]

\* a < b
DigitsLess(a, b) ==
  \/ Len(a) < Len(b)
  \/ /\ Len(a) = Len(b)
     /\ \E i \in 1..Len(a) :
          a[i] < b[i] /\ \A j \in (i + 1)..Len(a) : a[j] = b[j]

RECURSIVE AddDigits(_, _, _)
AddDigits(a, b, carry) ==
  IF Len(a) = 0 /\ Len(b) = 0 THEN DigitsOf(carry)
  ELSE LET x == LowDigit(a) + LowDigit(b) + carry
       IN  <<x % Base>> \o AddDigits(RestDigits(a), RestDigits(b), x \div Base)

\* a - b - borrow for a >= b + borrow, leading zeros kept
RECURSIVE SubDigits(_, _, _)
SubDigits(a, b, borrow) ==
  IF Len(a) = 0 THEN <<>>
  ELSE LET x == a[1] - LowDigit(b) - borrow
       IN  <<x % Base>> \o SubDigits(Tail(a), RestDigits(b), IF x < 0 THEN 1 ELSE 0)

\* a * k + carry for natural numbers k, carry below the base
RECURSIVE MulDigits(_, _, _)
MulDigits(a, k, carry) ==
  IF Len(a) = 0 THEN DigitsOf(carry)
  ELSE LET x == a[1] * k + carry
       IN  <<x % Base>> \o MulDigits(Tail(a), k, x \div Base)

\* long division by 0 < q < 2^16 of the number whose digits, highest first,
\* are high: the quotient and whether a remainder is left
RECURSIVE LongDiv(_, _, _, _)
LongDiv(high, q, r, quotient) ==
  IF Len(high) = 0 THEN [q |-> TrimDigits(quotient), sticky |-> r # 0]
  ELSE LET x == r * Base + high[1]
       IN  LongDiv(Tail(high), q, x % q, <<x \div q>> \o quotient)

\* the digits of a, highest first
HighFirst(a) == [i \in 1..Len(a) |-> a[Len(a) + 1 - i]]

DivDigits(a, q) == LongDiv(HighFirst(a), q, 0, <<>>)

\* a * 2^k
ShiftLeft(a, k) ==
  IF Len(a) = 0 THEN a
  ELSE [i \in 1..(k \div 15) |-> 0] \o TrimDigits(MulDigits(a, 2 ^ (k % 15), 0))

\* floor(a / 2^k) and whether anything was cut off
CutOff(r, more) == [q |-> r.q, sticky |-> r.sticky \/ more]

ShiftRight(a, k) ==
  LET whole == MinInt(k \div 15, Len(a))
  IN  CutOff(DivDigits(SubSeq(a, whole + 1, Len(a)), 2 ^ (k % 15)),
             \E i \in 1..whole : a[i] # 0)

\* the number of bits of a
BitLength(a) ==
  IF Len(a) = 0 THEN 0
  ELSE 15 * (Len(a) - 1)
         + (CHOOSE k \in 1..15 : 2 ^ (k - 1) <= a[Len(a)] /\ a[Len(a)] < 2 ^ k)

\* round to nearest, ties to even: the double nearest to (m + f) * 2^e, where
\* 0 <= f < 1 and f > 0 exactly if sticky
\* the 53 bits kept, one added if the first bit cut off is 1 (half) and
\* either more was cut off behind it or the kept bits are odd
RoundHalfEven(neg, kept, half, more, e) ==
  [neg |-> neg,
   m |-> IF half /\ (more \/ LowDigit(kept) % 2 = 1)
         THEN AddDigits(kept, <<>>, 1) ELSE kept,
   e |-> e]

\* r: the mantissa with the first bit cut off still at its end
RoundCut(neg, r, e, sticky) ==
  RoundHalfEven(neg, DivDigits(r.q, 2).q, r.q[1] % 2 = 1, sticky \/ r.sticky, e)

\* m has cut bits more than the 53 of a double
RoundBits(neg, m, e, sticky, cut) ==
  IF cut <= 0 THEN [neg |-> neg /\ Len(m) > 0, m |-> m, e |-> e]
  ELSE RoundCut(neg, ShiftRight(m, cut - 1), e + cut, sticky)

RoundToDouble(neg, m, e, sticky) == RoundBits(neg, m, e, sticky, BitLength(m) - 53)

\* the double nearest to the quotient r = [q, sticky] at exponent e
RoundQuotient(neg, r, e) == RoundToDouble(neg, r.q, e, r.sticky)

\* floor(a * 2^90 / q) and whether the division left a remainder
DivScaled(a, q) ==
  IF Len(a) = 0 THEN [q |-> <<>>, sticky |-> FALSE]
  ELSE DivDigits([i \in 1..6 |-> 0] \o a, q)

\* the double a Python float of the exact number x is
ToDouble(x) ==
  RoundQuotient(x.n < 0,
                DivScaled(DigitsOf(AbsInt(x.n) * Pow10(x.e)), x.d * Pow10(-x.e)),
                -90)

\* the digits of |a| at the exponent e <= a.e
DigitsAt(a, e) == ShiftLeft(a.m, a.e - e)

\* a < b
MagnitudeLess(a, b, e) == DigitsLess(DigitsAt(a, e), DigitsAt(b, e))

DoubleLess(a, b) ==
  IF a.neg # b.neg THEN a.neg
  ELSE IF a.neg THEN MagnitudeLess(b, a, MinInt(a.e, b.e))
  ELSE MagnitudeLess(a, b, MinInt(a.e, b.e))

\* |a - b|, exactly: [m, e] of value m * 2^e
DigitsDifference(am, bm, opposite) ==
  IF opposite THEN AddDigits(am, bm, 0)
  ELSE IF DigitsLess(am, bm) THEN TrimDigits(SubDigits(bm, am, 0))
  ELSE TrimDigits(SubDigits(am, bm, 0))

AbsDifference(a, b) ==
  LET e == MinInt(a.e, b.e)
  IN  [e |-> e, m |-> DigitsDifference(DigitsAt(a, e), DigitsAt(b, e), a.neg # b.neg)]

RoundDifference(d) == RoundToDouble(FALSE, d.m, d.e, FALSE)

\* numpy.abs(a - b) of two doubles
DoubleAbsSub(a, b) == RoundDifference(AbsDifference(a, b))

\* k * a of the integer 0 <= k < 2^15 and the double a
DoubleMulInt(k, a) ==
  RoundToDouble(a.neg, TrimDigits(MulDigits(a.m, k, 0)), a.e, FALSE)

\* a / k of the double a and the integer 0 < k < 2^16
DoubleDivInt(a, k) == RoundQuotient(a.neg, DivScaled(a.m, k), a.e - 90)

\* a * b
RECURSIVE MulNat(_, _)
MulNat(a, b) ==
  IF Len(a) = 0 \/ Len(b) = 0 THEN <<>>
  ELSE TrimDigits(AddDigits(MulDigits(a, b[1], 0), <<0>> \o MulNat(a, Tail(b)), 0))

\* the largest digit q with q * b <= x, for x < Base * b and b with a highest
\* digit of at least Base / 2: at most 2 below the quotient of the two highest
\* digits of x by the highest digit of b
QuotientDigit(x, b) ==
  LET n    == Len(b)
      top  == (IF Len(x) > n THEN x[n + 1] ELSE 0) * Base
                + (IF Len(x) >= n THEN x[n] ELSE 0)
      qhat == MinInt(top \div b[n], Base - 1)
  IN  IF ~ DigitsLess(x, TrimDigits(MulDigits(b, qhat, 0))) THEN qhat
      ELSE IF ~ DigitsLess(x, TrimDigits(MulDigits(b, qhat - 1, 0))) THEN qhat - 1
      ELSE qhat - 2

\* long division by b > 0 of the number whose digits, highest first, are
\* high, r being the remainder so far: the quotient and whether a remainder
\* is left
RECURSIVE LongDivNat(_, _, _, _)
\* the step of the long division that has found the quotient digit d of x
LongDivStep(rest, b, x, d, quotient) ==
  LongDivNat(rest, b, TrimDigits(SubDigits(x, TrimDigits(MulDigits(b, d, 0)), 0)),
             <<d>> \o quotient)

LongDivNat(high, b, r, quotient) ==
  IF Len(high) = 0 THEN [q |-> TrimDigits(quotient), sticky |-> Len(r) # 0]
  ELSE LET x == TrimDigits(<<high[1]>> \o r)
       IN  LongDivStep(Tail(high), b, x, QuotientDigit(x, b), quotient)

\* a * b of two doubles
DoubleMul(a, b) ==
  RoundToDouble(a.neg # b.neg, MulNat(a.m, b.m), a.e + b.e, FALSE)

\* the shift that brings a > 0 to 60 bits: four digits, the highest one at
\* least Base / 2
Normalizing(a) == 60 - BitLength(a)

\* a / b of two doubles, b not 0 (a for b = 0, which no caller asks for):
\* both mantissas are brought to 60 bits and the quotient of a.m * 2^60 by
\* b.m, of 60 or 61 bits, is rounded
DoubleDivShifted(a, b, sa, sb) ==
  RoundQuotient(a.neg # b.neg,
                LongDivNat(HighFirst([i \in 1..4 |-> 0] \o ShiftLeft(a.m, sa)),
                           ShiftLeft(b.m, sb), <<>>, <<>>),
                (a.e - sa) - (b.e - sb) - 60)

DoubleDiv(a, b) ==
  IF Len(a.m) = 0 \/ Len(b.m) = 0 THEN a
  ELSE DoubleDivShifted(a, b, Normalizing(a.m), Normalizing(b.m))

\* a = b as values
DoubleEq(a, b) == ~ DoubleLess(a, b) /\ ~ DoubleLess(b, a)

\* the integer a sequence of digits stands for
RECURSIVE NatOf(_)
NatOf(a) == IF Len(a) = 0 THEN 0 ELSE a[1] + Base * NatOf(Tail(a))

\* Python int(a) of a double: truncation toward zero
Signed(neg, mag) == IF neg THEN -mag ELSE mag

IntOfDouble(a) ==
  Signed(a.neg, NatOf(IF a.e >= 0 THEN ShiftLeft(a.m, a.e)
                      ELSE ShiftRight(a.m, -a.e).q))

\* int(numpy.floor(a)) of a double
FloorOfDouble(a) ==
  IntOfDouble(a)
    - (IF a.neg /\ a.e < 0 /\ ShiftRight(a.m, -a.e).sticky THEN 1 ELSE 0)

\* the Python floats 0.0, 1.0 and 2.0
ZeroFloat == ToDouble(Zero)

OneFloat == ToDouble(One)

TwoFloat == ToDouble(Int2Num(2))

\* element i (from 1) of numpy.linspace(0, stop, num, endpoint=False), as the
\* double it is: arange(num)[i - 1] * (stop / num)
linspace_double(stop, num, i) ==
  DoubleMulInt(i - 1, DoubleDivInt(ToDouble(stop), num))

(***************************************************************************)
(* Python values returned to the caller.                                   *)
(*   an ndarray of one dimension: [ndim |-> 1, data |-> <<...>>]           *)
(*   a bare scalar (a Python float): [ndim |-> 0, data |-> <<v>>]          *)
(* A call returns [ok |-> TRUE, ...] or raises: [ok |-> FALSE, error].     *)
(***************************************************************************)
Array(s) == [ndim |-> 1, data |-> s]

Scalar(v) == [ndim |-> 0, data |-> <<v>>]

Raise(e) == [ok |-> FALSE, error |-> e]

(***************************************************************************)
(* numpy.linspace(start, stop, num, endpoint): the array is [ok, v]; a     *)
(* negative num raises ValueError.                                         *)
(***************************************************************************)
linspace(start, stop, num, endpoint) ==
  LET div  == IF endpoint THEN num - 1 ELSE num
      step == IF div > 0 THEN Div(Sub(stop, start), Int2Num(div)) ELSE Zero
  IN  IF num < 0
      THEN Raise("ValueError: Number of samples must be non-negative")
      ELSE [ok |-> TRUE, v |-> [i \in 1..num |-> Add(start, Mul(Int2Num(i - 1), step))]]

\* x + dc_offset, numpy broadcasting a scalar over an array
AddOffset(x, dc) == [x EXCEPT !.data = MapSeq(LAMBDA v : Add(v, dc), x.data)]

\* the same for samples the model keeps symbolic
SymOffset(x, dc) == [x EXCEPT !.data = MapSeq(LAMBDA v : Sym("+", <<v, dc>>), x.data)]

\* the last index of a least element of a non-empty s
argmin_last(s) ==
  CHOOSE i \in 1..Len(s) :
    /\ \A j \in 1..Len(s) : ~ DoubleLess(s[j], s[i])
    /\ \A j \in (i + 1)..Len(s) : DoubleLess(s[i], s[j])

\* numpy.argmin over doubles: the first index (from 1) of a least element of a
\* non-empty s
argmin(s) ==
  CHOOSE i \in 1..Len(s) :
    /\ \A j \in 1..Len(s) : ~ DoubleLess(s[j], s[i])
    /\ \A j \in 1..(i - 1) : DoubleLess(s[i], s[j])

(***************************************************************************)
(* SignalGenerator                                                          *)
(***************************************************************************)
SIGNAL_TYPES ==
  {"Sine Wave", "Cosine Wave", "Square Wave", "Triangle Wave", "Sawtooth Wave",
   "Exponential Decay", "Unit Step", "Impulse", "Gaussian Pulse", "Custom Function"}

\* int(fs * duration): the product of two doubles, truncated toward zero
sample_count(fs, duration) ==
  IntOfDouble(DoubleMul(ToDouble(fs), ToDouble(duration)))

\* SignalGenerator.__init__(fs, duration): [ok, self], or the exception
\* numpy.linspace raises, which leaves no generator
constructed(fs, duration, t) ==
  IF t.ok THEN [ok |-> TRUE, self |-> [fs |-> fs, duration |-> duration, t |-> t.v]]
  ELSE t

SignalGenerator(fs, duration) ==
  constructed(fs, duration,
              linspace(Zero, duration, sample_count(fs, duration), FALSE))

\* the double that self.t holds at index i (from 1).  As long as self.t is
\* the array linspace built (from 0 to a stop, which is Len(self.t) steps),
\* it is the element linspace computed; once an expression or a caller has
\* written into self.t, it is the double of the value written
time_double(self, i) ==
  LET num  == Len(self.t)
      stop == IF num >= 2 THEN Mul(Int2Num(num), self.t[2]) ELSE Zero
  IN  IF self.t = linspace(Zero, stop, num, FALSE).v
      THEN linspace_double(stop, num, i)
      ELSE ToDouble(self.t[i])

\* set_parameters(fs, duration); an omitted argument is None, given here as
\* [given |-> FALSE].  self.fs and self.duration are assigned before linspace
\* is called: when it raises, they are changed and self.t is not
\* self.t = np.linspace(...), t being what linspace returned or raised
time_assigned(assigned, t) ==
  IF t.ok THEN [self |-> [assigned EXCEPT !.t = t.v], ret |-> [ok |-> TRUE]]
  ELSE [self |-> assigned, ret |-> t]

set_parameters(self, fs, duration) ==
  LET fs1  == IF fs.given THEN fs.v ELSE self.fs
      dur1 == IF duration.given THEN duration.v ELSE self.duration
  IN  time_assigned([self EXCEPT !.fs = fs1, !.duration = dur1],
                    linspace(Zero, dur1, sample_count(fs1, dur1), FALSE))

\* The expressions a Custom Function is given, and Python's eval of each with
\* np and t in scope: [ok, v] with v an array, a scalar, or a raised exception.
CustomFunctions ==
  {"np.sin(2*np.pi*t)", "t", "2*t", "1.0", "np.ones(3)", "t +", "foo(t)"}

\* an eval that gives 0 for whatever it cannot parse or evaluate
eval_function_lenient(func_str, t) ==
  [ok |-> TRUE, sym |-> FALSE, v |-> Scalar(Zero)]

eval_function(func_str, t) ==
  CASE func_str = "np.sin(2*np.pi*t)" ->
         [ok |-> TRUE, sym |-> TRUE,
          v |-> Array(MapSeq(LAMBDA ti : Sym("sin(2*pi*t)", <<ti>>), t))]
    [] func_str = "t" -> [ok |-> TRUE, sym |-> FALSE, v |-> Array(t)]
    [] func_str = "2*t" ->
         [ok |-> TRUE, sym |-> FALSE,
          v |-> Array(MapSeq(LAMBDA ti : Mul(Int2Num(2), ti), t))]
    [] func_str = "1.0" -> [ok |-> TRUE, sym |-> FALSE, v |-> Scalar(One)]
    [] func_str = "np.ones(3)" ->
         [ok |-> TRUE, sym |-> FALSE, v |-> Array(<<One, One, One>>)]
    [] func_str = "t +" -> [ok |-> FALSE, error |-> "SyntaxError"]
    [] OTHER -> [ok |-> FALSE, error |-> "NameError"]

\* self.t[i] >= step_time, a comparison of doubles: values that differ as
\* exact numbers differ by far more than rounding moves them, and for equal
\* ones the doubles decide
step_reached(self, i, step_time) ==
  IF EqNum(self.t[i], step_time)
  THEN ~ DoubleLess(time_double(self, i), ToDouble(step_time))
  ELSE Ge(self.t[i], step_time)

\* np.abs(self.t - impulse_time), impulse_time a double
distances(self, impulse_time) ==
  [i \in 1..Len(self.t) |-> DoubleAbsSub(time_double(self, i), impulse_time)]

\* x = np.zeros_like(self.t); x[idx] = amplitude
impulse_at(idx, N, amplitude) ==
  [i \in 1..N |-> IF i = idx THEN amplitude ELSE Zero]

\* every sample is one named formula of the sample time and the parameters
Formula(name, t, params) == Array(MapSeq(LAMBDA ti : Sym(name, <<ti>> \o params), t))

\* generate(signal_type, **kwargs)
generate(self, signal_type, kwargs) ==
  LET amplitude == Get(kwargs, "amplitude", One)
      frequency == Get(kwargs, "frequency", One)
      phase     == Get(kwargs, "phase", Zero)
      dc_offset == Get(kwargs, "dc_offset", Zero)
      t         == self.t
      wave      == <<amplitude, frequency, phase, dc_offset>>
      Return(x) == [ok |-> TRUE, t |-> t, x |-> x]
  IN
  CASE signal_type = "Sine Wave" ->
         Return(Formula("A*sin(2*pi*f*t+phase)+D", t, wave))
    [] signal_type = "Cosine Wave" ->
         Return(Formula("A*cos(2*pi*f*t+phase)+D", t, wave))
    [] signal_type = "Square Wave" ->
         Return(Formula("A*square(2*pi*f*t+phase,duty)+D", t,
                        wave \o <<Get(kwargs, "duty_cycle", Frac(1, 2))>>))
    [] signal_type = "Triangle Wave" ->
         Return(Formula("A*sawtooth(2*pi*f*t+phase,width)+D", t,
                        wave \o <<Get(kwargs, "width", Frac(1, 2))>>))
    [] signal_type = "Sawtooth Wave" ->
         Return(Formula("A*sawtooth(2*pi*f*t+phase)+D", t, wave))
    [] signal_type = "Exponential Decay" ->
         Return(Formula("A*exp(-r*t)+D", t,
                        <<amplitude, Get(kwargs, "decay_rate", One), dc_offset>>))
    [] signal_type = "Unit Step" ->
         LET step_time == Get(kwargs, "step_time", Zero)
         IN  Return(Array([i \in 1..Len(t) |->
               Add(Mul(amplitude,
                       IF step_reached(self, i, step_time) THEN One ELSE Zero),
                   dc_offset)]))
    [] signal_type = "Impulse" ->
         LET impulse_time == Get(kwargs, "impulse_time", Zero)
         IN  IF Len(t) = 0 THEN Raise("ValueError: argmin of an empty sequence")
             ELSE Return(Array(impulse_at(argmin(distances(self, ToDouble(impulse_time))),
                                          Len(t), amplitude)))
    [] signal_type = "Gaussian Pulse" ->
         Return(Formula("A*exp(-0.5*((t-c)/s)**2)+D", t,
                        <<amplitude,
                          Get(kwargs, "center", Div(self.duration, Int2Num(2))),
                          Get(kwargs, "std_dev", Frac(1, 10)), dc_offset>>))
    [] signal_type = "Custom Function" ->
         LET func_str == Get(kwargs, "function", "np.sin(2*np.pi*t)")
             r == eval_function(func_str, t)
         IN  IF ~ r.ok THEN Raise("ValueError: Invalid custom function")
             ELSE IF r.sym THEN Return(SymOffset(r.v, dc_offset))
             ELSE Return(AddOffset(r.v, dc_offset))
    [] OTHER -> Raise("ValueError: Unknown signal type")

(***************************************************************************)
(* The SignalGenerator under its callers.                                  *)
(***************************************************************************)
\* sampling rates and durations given to a SignalGenerator; 25 Hz and 1.16 s
\* have the product 29, which the double product 28.999999999999996 misses
FsValues == {Int2Num(k) : k \in 1..MaxFs} \cup {Int2Num(25)}

DurationValues == {Frac(k, 4) : k \in 0..MaxDurNum} \cup {Frac(116, 100)}

None == [given |-> FALSE]

Some(v) == [given |-> TRUE, v |-> v]

Optional(S) == {None} \cup {Some(v) : v \in S}

NoKwargs == [k \in {} |-> Zero]

\* the keyword arguments tried for each signal type
KwargsOf(signal_type) ==
  LET common == [amplitude |-> Int2Num(2), dc_offset |-> One]
  IN
  CASE signal_type = "Unit Step" ->
         {NoKwargs} \cup
         {[amplitude |-> Int2Num(2), dc_offset |-> One, step_time |-> s] :
            s \in {Frac(1, 2), Int2Num(5)}}
    [] signal_type = "Impulse" ->
         {NoKwargs} \cup
         {[amplitude |-> Int2Num(2), dc_offset |-> One, impulse_time |-> s] :
            s \in {Frac(1, 8), Frac(3, 8), Frac(1, 2), Int2Num(5)}}
    [] signal_type = "Gaussian Pulse" ->
         {NoKwargs, [amplitude |-> Int2Num(2), dc_offset |-> One, center |-> Zero]}
    [] signal_type = "Custom Function" ->
         {NoKwargs} \cup {[function |-> f, dc_offset |-> One] : f \in CustomFunctions}
    [] OTHER -> {NoKwargs, common}

InitGen ==
  /\ \E fs \in FsValues, duration \in DurationValues :
       /\ SignalGenerator(fs, duration).ok
       /\ gen = SignalGenerator(fs, duration).self
       /\ call = [op |-> "SignalGenerator", fs |-> fs, duration |-> duration]
  /\ analyzer = [fs |-> Int2Num(1000)]
  /\ ret = [ok |-> TRUE]
  /\ heap = <<>>
  /\ gui = <<>>

SetParameters ==
  \E fs \in Optional(FsValues), duration \in Optional(DurationValues) :
    /\ gen' = set_parameters(gen, fs, duration).self
    /\ call' = [op |-> "set_parameters", fs |-> fs, duration |-> duration]
    /\ ret' = set_parameters(gen, fs, duration).ret
    /\ UNCHANGED <<analyzer, heap, gui>>

Generate ==
  \E signal_type \in SIGNAL_TYPES \cup {"Chirp"} :
    \E kwargs \in KwargsOf(signal_type) :
      /\ call' = [op |-> "generate", signal_type |-> signal_type, kwargs |-> kwargs]
      /\ ret' = generate(gen, signal_type, kwargs)
      /\ UNCHANGED <<gen, analyzer, heap, gui>>

NextGen == SetParameters \/ Generate

SpecGen == InitGen /\ [][NextGen]_vars

(***************************************************************************)
(* SystemAnalyzer.create_system                                            *)
(***************************************************************************)
SYSTEM_TYPES ==
  {"Low-pass Filter", "High-pass Filter", "Band-pass Filter", "Moving Average",
   "Differentiator", "Integrator", "Custom System"}

\* SystemAnalyzer.__init__(fs)
SystemAnalyzer(fs) == [fs |-> fs]

\* the double of value a with an odd mantissa: one representation per value
Canonical(a) ==
  LET zeros == CHOOSE i \in 0..Len(a.m) :
                 /\ \A j \in 1..i : a.m[j] = 0
                 /\ i < Len(a.m) => a.m[i + 1] # 0
      bits  == CHOOSE k \in 0..14 :
                 a.m[zeros + 1] % (2 ^ (k + 1)) # 0 /\ a.m[zeros + 1] % (2 ^ k) = 0
  IN  IF Len(a.m) = 0 THEN [neg |-> FALSE, m |-> <<>>, e |-> 0]
      ELSE [neg |-> a.neg, m |-> ShiftRight(a.m, 15 * zeros + bits).q,
            e |-> a.e + 15 * zeros + bits]

DoubleLeq(a, b) == ~ DoubleLess(b, a)

\* scipy.signal.butter(N, Wn, btype, analog=False) on critical frequencies
\* that are doubles: the order must not be negative (buttap), the
\* frequencies must lie strictly between 0 and 1, and those of a band must
\* increase, each a ValueError otherwise; b and a have N+1 coefficients
\* (2N+1 for a band), a[0] is exactly 1, and the other coefficients stay
\* symbolic.
butter(N, Wn, btype) ==
  LET K == IF btype = "band" THEN 2 * N + 1 ELSE N + 1
  IN  IF N < 0
      THEN Raise("ValueError: Filter order must be a nonnegative integer")
      ELSE IF \E i \in 1..Len(Wn) :
           DoubleLeq(Wn[i], ZeroFloat) \/ DoubleLeq(OneFloat, Wn[i])
      THEN Raise("ValueError: Digital filter critical frequencies must be 0 < Wn < 1")
      ELSE IF btype = "band" /\ DoubleLeq(Wn[2], Wn[1])
      THEN Raise("ValueError: Wn[0] must be less than Wn[1]")
      ELSE [ok |-> TRUE,
            b |-> [i \in 1..K |-> Sym("butter.b", <<i - 1, N, Wn, btype>>)],
            a |-> [i \in 1..K |->
                     IF i = 1 THEN One ELSE Sym("butter.a", <<i - 1, N, Wn, btype>>)]]

\* what create_system returns or raises after its call c to butter has
\* returned or raised r
butter_returned(r, c) ==
  IF r.ok THEN [ok |-> TRUE, b |-> r.b, a |-> r.a, butter |-> c]
  ELSE [ok |-> FALSE, error |-> r.error, butter |-> c]

butter_called(N, Wn, btype) ==
  butter_returned(butter(N, Wn, btype), <<[N |-> N, Wn |-> Wn, btype |-> btype]>>)

\* the call create_system makes to butter with the critical frequencies
\* cut / nyquist, a division of Python floats that raises for nyquist = 0,
\* and what the call returns or raises
Design(N, cut, nyquist, btype) ==
  IF Len(nyquist.m) = 0
  THEN [ok |-> FALSE, error |-> "ZeroDivisionError: float division by zero",
        butter |-> <<>>]
  ELSE butter_called(N, MapSeq(LAMBDA c : Canonical(DoubleDiv(c, nyquist)), cut),
                     btype)

\* the floats of create_system: the factor 0.99 below Nyquist, the lowest
\* lowcut 0.1 and the fallback band 5.0 to 15.0
MarginFactor == ToDouble(Frac(99, 100))

LowestLowcut == ToDouble(Frac(1, 10))

FallbackLowcut == ToDouble(Int2Num(5))

FallbackHighcut == ToDouble(Int2Num(15))

\* the margin below Nyquist: the product nyquist * 0.99 of the doubles
nyquist_margin(nyquist) == DoubleMul(nyquist, MarginFactor)

\* lowpass_cutoff with the guard written > instead of >=
lowpass_cutoff_gt(cutoff, nyquist) ==
  IF DoubleLess(nyquist, cutoff) THEN nyquist_margin(nyquist) ELSE cutoff

\* Low-pass: the cutoff after the Nyquist guard, cutoff and nyquist doubles
lowpass_cutoff(cutoff, nyquist) ==
  IF DoubleLeq(nyquist, cutoff) THEN nyquist_margin(nyquist) ELSE cutoff

\* the second guard of High-pass: if cutoff >= nyquist: cutoff = nyquist * 0.99
highpass_nyquist_guard(cutoff, nyquist) ==
  IF DoubleLeq(nyquist, cutoff) THEN nyquist_margin(nyquist) ELSE cutoff

\* High-pass: the cutoff after both guards
highpass_cutoff(cutoff, nyquist) ==
  highpass_nyquist_guard(IF DoubleLeq(cutoff, ZeroFloat) THEN OneFloat ELSE cutoff,
                         nyquist)

fallback_band == <<FallbackLowcut, FallbackHighcut>>

\* Python max(a, b) and min(a, b) of two floats: a unless b is beyond it
max_float(a, b) == IF DoubleLess(a, b) THEN b ELSE a

min_float(a, b) == IF DoubleLess(b, a) THEN b ELSE a

\* if lowcut >= highcut: lowcut, highcut = 5.0, 15.0
band_or_fallback(lowcut, highcut) ==
  IF DoubleLeq(highcut, lowcut) THEN fallback_band ELSE <<lowcut, highcut>>

\* band_edges without the two clamps: any invalid range takes the fallback
band_edges_noclamp(lowcut, highcut, nyquist) ==
  IF DoubleLess(lowcut, LowestLowcut)
     \/ DoubleLess(nyquist_margin(nyquist), highcut)
     \/ DoubleLeq(highcut, lowcut)
  THEN fallback_band ELSE <<lowcut, highcut>>

\* Band-pass: <<lowcut, highcut>> after "Ensure valid band", all doubles:
\* max(lowcut, 0.1), min(highcut, nyquist * 0.99), then the fallback
band_edges(lowcut, highcut, nyquist) ==
  band_or_fallback(max_float(lowcut, LowestLowcut),
                   min_float(highcut, nyquist_margin(nyquist)))

\* a clip that forgets the upper limit
clip_below_only(x, lo, hi) == MaxNum(x, lo)

\* numpy.clip(x, lo, hi)
clip(x, lo, hi) == MinNum(MaxNum(x, lo), hi)

\* numpy.trim_zeros(s, 'f'): leading coefficients equal to zero removed
RECURSIVE trim_zeros(_)
trim_zeros(s) ==
  IF Len(s) = 0 THEN s
  ELSE IF IsZero(s[1]) THEN trim_zeros(Tail(s)) ELSE s

\* The coefficient texts a Custom System is given, and np.array(eval(text)).
CoefficientTexts ==
  {"[1]", "[1, -0.5]", "[0]", "[0, 0]", "[0, 1]", "[0, 0, 2, 1]", "[]",
   "[1e-12]", "[-1e-12]", "[1e-13]", "[1e-13, 1]", "[0, 1e-13, 1]", "[1,"}

eval_coefficients(text) ==
  CASE text = "[1]" -> [ok |-> TRUE, v |-> <<One>>]
    [] text = "[1, -0.5]" -> [ok |-> TRUE, v |-> <<One, Frac(-1, 2)>>]
    [] text = "[0]" -> [ok |-> TRUE, v |-> <<Zero>>]
    [] text = "[0, 0]" -> [ok |-> TRUE, v |-> <<Zero, Zero>>]
    [] text = "[0, 1]" -> [ok |-> TRUE, v |-> <<Zero, One>>]
    [] text = "[0, 0, 2, 1]" -> [ok |-> TRUE, v |-> <<Zero, Zero, Int2Num(2), One>>]
    [] text = "[]" -> [ok |-> TRUE, v |-> <<>>]
    [] text = "[1e-12]" -> [ok |-> TRUE, v |-> <<Dec(1, -12)>>]
    [] text = "[-1e-12]" -> [ok |-> TRUE, v |-> <<Dec(-1, -12)>>]
    [] text = "[1e-13]" -> [ok |-> TRUE, v |-> <<Dec(1, -13)>>]
    [] text = "[1e-13, 1]" -> [ok |-> TRUE, v |-> <<Dec(1, -13), One>>]
    [] text = "[0, 1e-13, 1]" -> [ok |-> TRUE, v |-> <<Zero, Dec(1, -13), One>>]
    [] OTHER -> [ok |-> FALSE, error |-> "SyntaxError"]

\* the test on the leading denominator coefficient: abs(a[0]) < 1e-12
leading_too_small(a0) == Lt(AbsNum(a0), Dec(1, -12))

\* the try block of Custom System after the two evals have given eb and ea
custom_evaluated(eb, ea) ==
  LET invalid == [ok |-> FALSE, error |-> "ValueError: Invalid system coefficients",
                  butter |-> <<>>]
  IN  IF ~ eb.ok \/ ~ ea.ok THEN invalid
      ELSE IF Len(eb.v) = 0 \/ Len(ea.v) = 0 THEN invalid
      ELSE LET b_trimmed == trim_zeros(eb.v)
               a_trimmed == trim_zeros(ea.v)
               b == IF Len(b_trimmed) > 0 THEN b_trimmed ELSE <<Zero>>
               a == IF Len(a_trimmed) > 0 THEN a_trimmed ELSE <<One>>
           IN  IF leading_too_small(a[1]) THEN invalid
               ELSE [ok |-> TRUE, b |-> b, a |-> a, butter |-> <<>>]

\* Custom System: every exception of the try block becomes one ValueError
custom_system(b_str, a_str) ==
  custom_evaluated(eval_coefficients(b_str), eval_coefficients(a_str))

\* the three Butterworth branches of create_system, each of which begins
\* with order = int(kwargs.get('order', 4)) and nyquist = self.fs / 2; the
\* cutoffs and nyquist are Python floats
butterworth(system_type, kwargs, order, nyquist) ==
  CASE system_type = "Low-pass Filter" ->
         Design(order,
                <<lowpass_cutoff(ToDouble(Get(kwargs, "cutoff", Int2Num(10))), nyquist)>>,
                nyquist, "low")
    [] system_type = "High-pass Filter" ->
         Design(order,
                <<highpass_cutoff(ToDouble(Get(kwargs, "cutoff", Int2Num(10))), nyquist)>>,
                nyquist, "high")
    [] system_type = "Band-pass Filter" ->
         Design(order,
                band_edges(ToDouble(Get(kwargs, "lowcut", Int2Num(5))),
                           ToDouble(Get(kwargs, "highcut", Int2Num(15))), nyquist),
                nyquist, "band")

\* create_system(system_type, **kwargs)
create_system(self, system_type, kwargs) ==
  LET Return(b, a) == [ok |-> TRUE, b |-> b, a |-> a, butter |-> <<>>]
  IN
  CASE system_type \in {"Low-pass Filter", "High-pass Filter", "Band-pass Filter"} ->
         butterworth(system_type, kwargs,
                     IntOf(Get(kwargs, "order", Int2Num(4))),
                     DoubleDiv(ToDouble(self.fs), TwoFloat))
    [] system_type = "Moving Average" ->
         LET w == IntOf(Get(kwargs, "window_size", Int2Num(5)))
             window_size == IF w < 1 THEN 1 ELSE w
         IN  Return([i \in 1..window_size |-> Div(One, Int2Num(window_size))], <<One>>)
    [] system_type = "Differentiator" ->
         LET alpha == clip(Get(kwargs, "alpha", Frac(95, 100)), Zero, Frac(999, 1000))
         IN  Return(<<One, Int2Num(-1)>>, <<One, Neg(alpha)>>)
    [] system_type = "Integrator" ->
         LET beta == clip(Get(kwargs, "beta", Frac(99, 100)), Zero, Frac(9999, 10000))
         IN  Return(<<One>>, <<One, Neg(beta)>>)
    [] system_type = "Custom System" ->
         custom_system(Get(kwargs, "numerator", "[1]"), Get(kwargs, "denominator", "[1]"))
    [] OTHER -> [ok |-> FALSE, error |-> "ValueError: Unknown system type", butter |-> <<>>]

(***************************************************************************)
(* The SystemAnalyzer under its callers: construction, then create_system. *)
(***************************************************************************)
\* sampling rates: tens of Hz, 1000 Hz, and two rates with a Nyquist
\* frequency close to 1 Hz and to 2 Hz
AnalyzerFs ==
  {Int2Num(10 * k) : k \in 1..MaxFsTens} \cup
  {Int2Num(1000), Frac(201, 100), Frac(37, 10)}

\* cutoffs tried at sampling rate fs: fixed ones, and ones around Nyquist
CutoffValues(fs) ==
  LET nyquist == Div(fs, Int2Num(2))
  IN  {Int2Num(-1), Zero, Frac(1, 20), Frac(1, 10), One, Int2Num(5), Int2Num(10),
       Int2Num(15), Int2Num(50),
       Mul(nyquist, Frac(99, 100)), Mul(nyquist, Frac(995, 1000)), nyquist,
       Mul(nyquist, Int2Num(2))}

\* band edges tried at sampling rate fs
LowcutValues(fs) ==
  LET nyquist == Div(fs, Int2Num(2))
  IN  {Frac(1, 20), Frac(1, 10), Int2Num(5), Int2Num(50),
       Mul(nyquist, Frac(99, 100)), nyquist}

HighcutValues(fs) ==
  LET nyquist == Div(fs, Int2Num(2))
  IN  {Frac(1, 10), Int2Num(10), Int2Num(15), Mul(nyquist, Frac(99, 100)),
       Mul(nyquist, Frac(995, 1000)), Mul(nyquist, Int2Num(2))}

OrderValues == {Int2Num(k) : k \in 1..MaxOrder} \cup {Frac(3, 2), Int2Num(-1)}

NumeratorTexts == {"[1]", "[0]", "[0, 0]", "[0, 0, 2, 1]", "[]", "[1e-13, 1]", "[1,"}

PoleValues ==
  {Int2Num(-1), Zero, Frac(1, 2), Frac(999, 1000), Frac(9999, 10000), One, Int2Num(2)}

SystemKwargs(system_type, fs) ==
  CASE system_type \in {"Low-pass Filter", "High-pass Filter"} ->
         {NoKwargs} \cup
         {[cutoff |-> c] : c \in CutoffValues(fs)} \cup
         {[cutoff |-> c, order |-> n] : c \in {One, Int2Num(10)}, n \in OrderValues}
    [] system_type = "Band-pass Filter" ->
         {NoKwargs} \cup
         {[lowcut |-> lo, highcut |-> hi] :
            lo \in LowcutValues(fs), hi \in HighcutValues(fs)} \cup
         {[lowcut |-> lo, highcut |-> Int2Num(15), order |-> n] :
            lo \in {Int2Num(5), Int2Num(50)}, n \in OrderValues}
    [] system_type = "Moving Average" ->
         {NoKwargs} \cup {[window_size |-> Int2Num(k)] : k \in -1..MaxWindow}
                    \cup {[window_size |-> Frac(5, 2)]}
    [] system_type = "Differentiator" ->
         {NoKwargs} \cup {[alpha |-> p] : p \in PoleValues}
    [] system_type = "Integrator" ->
         {NoKwargs} \cup {[beta |-> p] : p \in PoleValues}
    [] system_type = "Custom System" ->
         {NoKwargs} \cup
         {[numerator |-> nb] : nb \in NumeratorTexts} \cup
         {[denominator |-> na] : na \in CoefficientTexts} \cup
         {[numerator |-> nb, denominator |-> na] :
            nb \in {"[0]", "[0, 0, 2, 1]"}, na \in {"[0]", "[0, 1]", "[1e-12]"}}
    [] OTHER -> {NoKwargs}

InitSys ==
  /\ \E fs \in AnalyzerFs :
       /\ analyzer = SystemAnalyzer(fs)
       /\ call = [op |-> "SystemAnalyzer", fs |-> fs]
  /\ gen = SignalGenerator(Int2Num(1), Zero).self
  /\ ret = [ok |-> TRUE]
  /\ heap = <<>>
  /\ gui = <<>>

CreateSystem ==
  \E system_type \in SYSTEM_TYPES \cup {"Notch Filter"} :
    \E kwargs \in SystemKwargs(system_type, analyzer.fs) :
      /\ call' = [op |-> "create_system", system_type |-> system_type, kwargs |-> kwargs]
      /\ ret' = create_system(analyzer, system_type, kwargs)
      /\ UNCHANGED <<gen, analyzer, heap, gui>>

NextSys == CreateSystem

SpecSys == InitSys /\ [][NextSys]_vars

(***************************************************************************)
(* scipy.signal.lfilter(b, a, x) for a non-empty a; with one denominator    *)
(* coefficient the filter is numpy.convolve, which takes no empty b or x.  *)
(***************************************************************************)
RECURSIVE SumSeq(_)
SumSeq(s) == IF Len(s) = 0 THEN Zero ELSE Add(s[1], SumSeq(Tail(s)))

\* s extended with zeros to length L
Pad(s, L) == [i \in 1..L |-> IF i <= Len(s) THEN s[i] ELSE Zero]

Scale(s, c) == MapSeq(LAMBDA v : Div(v, c), s)

\* a convolution that loses the tap on the current sample
fir_filter_delayed(b, a, x) ==
  LET bn == Scale(b, a[1])
  IN  [n \in 1..Len(x) |->
         SumSeq([k \in 1..(MinInt(n, Len(bn)) - 1) |-> Mul(bn[k + 1], x[n - k])])]

\* len(a) == 1: numpy.convolve(b / a[0], x) cut to len(x)
fir_filter(b, a, x) ==
  LET bn == Scale(b, a[1])
  IN  [n \in 1..Len(x) |->
         SumSeq([k \in 1..MinInt(n, Len(bn)) |-> Mul(bn[k], x[n - k + 1])])]

\* the output y of one step with the delay values it leaves: <<y, new z>>
df2t_state(bn, an, z, xk, y) ==
  LET L == Len(bn)
  IN  <<y, [i \in 1..(L - 1) |->
              Sub(Add(IF i < L - 1 THEN z[i + 1] ELSE Zero, Mul(xk, bn[i + 1])),
                  Mul(y, an[i + 1]))]>>

\* one input sample through the transposed direct form II: <<y, new z>>
df2t_step(bn, an, z, xk) == df2t_state(bn, an, z, xk, Add(z[1], Mul(bn[1], xk)))

RECURSIVE df2t_run(_, _, _, _, _)
\* the run after a step has given r = <<y, new z>>
df2t_after(bn, an, r, rest, y) == df2t_run(bn, an, r[2], rest, Append(y, r[1]))

df2t_run(bn, an, z, x, y) ==
  IF Len(x) = 0 THEN y
  ELSE df2t_after(bn, an, df2t_step(bn, an, z, x[1]), Tail(x), y)

\* len(a) > 1: _linear_filter, coefficients divided by a[0] and zero-padded
iir_filter(b, a, x) ==
  LET L == MaxInt(Len(b), Len(a))
  IN  df2t_run(Pad(Scale(b, a[1]), L), Pad(Scale(a, a[1]), L),
               [i \in 1..(L - 1) |-> Zero], x, <<>>)

lfilter(b, a, x) ==
  IF Len(a) = 1
  THEN \* numpy.convolve takes no empty sequence
       IF Len(b) = 0 THEN Raise("ValueError: a cannot be empty")
       ELSE IF Len(x) = 0 THEN Raise("ValueError: v cannot be empty")
       ELSE [ok |-> TRUE, y |-> fir_filter(b, a, x)]
  ELSE IF IsZero(a[1])
       THEN Raise("ValueError: filter coefficient a[0] == 0 not supported yet")
       ELSE [ok |-> TRUE, y |-> iir_filter(b, a, x)]

(***************************************************************************)
(* scipy.signal.dlti(b, a, dt) with dimpulse / dstep: the transfer         *)
(* function num(z)/den(z) in descending powers of z, realised in state     *)
(* space (tf2ss) and simulated (dlsim).                                    *)
(***************************************************************************)
\* numpy.allclose(x, 0, atol=1e-14)
allclose0(x) == ~ Lt(Dec(1, -14), AbsNum(x))

\* leading near-zero numerator coefficients removed, one coefficient kept
RECURSIVE trim_numerator(_)
trim_numerator(num) ==
  IF Len(num) > 1 /\ allclose0(num[1]) THEN trim_numerator(Tail(num)) ELSE num

\* scipy.signal.normalize(b, a)
normalize(b, a) ==
  IF \A i \in 1..Len(a) : IsZero(a[i])
  THEN Raise("ValueError: Denominator must have at least on nonzero element")
  ELSE LET den == trim_zeros(a)
       IN  [ok |-> TRUE, num |-> trim_numerator(Scale(b, den[1])),
            den |-> Scale(den, den[1])]

\* scipy.signal.tf2ss(num, den) of a normalized pair: the controller canonical
\* form.  A is the companion matrix of den, given by its first row; B = e1.
tf2ss(num, den) ==
  LET M == Len(num)
      K == Len(den)
      padded == [i \in 1..K |-> IF i <= K - M THEN Zero ELSE num[i - (K - M)]]
  IN  IF M > K THEN Raise("ValueError: Improper transfer function")
      ELSE IF K = 1
      THEN [ok |-> TRUE, frow |-> <<Zero>>, B |-> <<Zero>>, C |-> <<Zero>>, D |-> padded[1]]
      ELSE [ok |-> TRUE,
            frow |-> [j \in 1..(K - 1) |-> Neg(den[j + 1])],
            B |-> [j \in 1..(K - 1) |-> IF j = 1 THEN One ELSE Zero],
            C |-> [j \in 1..(K - 1) |-> Sub(padded[j + 1], Mul(padded[1], den[j + 1]))],
            D |-> padded[1]]

Dot(u, v) == SumSeq([j \in 1..Len(u) |-> Mul(u[j], v[j])])

\* x[i+1] = A x[i] + B u[i]
ss_next(ss, x, u) ==
  [j \in 1..Len(x) |->
     Add(IF j = 1 THEN Dot(ss.frow, x) ELSE x[j - 1], Mul(ss.B[j], u))]

\* y[i] = C x[i] + D u[i]
ss_out(ss, x, u) == Add(Dot(ss.C, x), Mul(ss.D, u))

RECURSIVE ss_run(_, _, _, _)
ss_run(ss, x, u, y) ==
  IF Len(u) = 0 THEN y
  ELSE ss_run(ss, ss_next(ss, x, u[1]), Tail(u), Append(y, ss_out(ss, x, u[1])))

\* linear interpolation of the samples (t, u) at time s, t[1] <= s <= t[Len(t)]
interp_between(t, u, s, i) ==
  Add(u[i], Mul(Sub(u[i + 1], u[i]), Div(Sub(s, t[i]), Sub(t[i + 1], t[i]))))

interp(t, u, s) ==
  IF \E i \in 1..Len(t) : EqNum(t[i], s)
  THEN u[CHOOSE i \in 1..Len(t) : EqNum(t[i], s)]
  ELSE interp_between(t, u, s,
                      CHOOSE i \in 1..(Len(t) - 1) : Lt(t[i], s) /\ Lt(s, t[i + 1]))

\* scipy.signal.dlsim(system, u, t) for a time vector of two or more
\* samples, whose last element is the double stoptime:
\* int(floor(stoptime / dt)) + 1 output samples on tout, the quotient being
\* that of the doubles, and the input interpolated onto tout. A negative
\* number of samples is a ValueError, and with no sample the assignment
\* xout[0, :] of the initial state is an IndexError.
dlsim_on(ss, u, t, tout) ==
  IF ~ tout.ok THEN tout
  ELSE IF Len(tout.v) = 0 THEN Raise("IndexError: index 0 is out of bounds")
  ELSE [ok |-> TRUE, tout |-> tout.v,
        yout |-> ss_run(ss, [j \in 1..Len(ss.frow) |-> Zero],
                        MapSeq(LAMBDA s : interp(t, u, s), tout.v), <<>>)]

dlsim(ss, dt, u, t, stoptime) ==
  dlsim_on(ss, u, t,
           linspace(Zero, t[Len(t)], FloorOfDouble(DoubleDiv(stoptime, dt)) + 1, TRUE))

\* numpy.squeeze of the (out_samples, 1) output: one sample becomes 0-d
squeeze(y) == IF Len(y) = 1 THEN Scalar(y[1]) ELSE Array(y)

\* the double of the last element of the time vector t: of the default
\* linspace(0, 2.0, N, endpoint=False) the element linspace computed, of a
\* vector the caller gave the double of its value
last_double(t, given) ==
  IF given THEN ToDouble(t[Len(t)]) ELSE linspace_double(Int2Num(2), Len(t), Len(t))

\* dlti(b, a, dt) followed by dimpulse / dstep on input u over t; any
\* exception raised on the way is reported as not ok
\* t_out, np.squeeze(yout) of what dlsim returned or raised
squeezed(r) ==
  IF ~ r.ok THEN r ELSE [ok |-> TRUE, t |-> r.tout, y |-> squeeze(r.yout)]

\* dimpulse / dstep on the state space ss that tf2ss returned or raised
dlti_simulated(ss, dt, u, t, given) ==
  IF ~ ss.ok THEN ss ELSE squeezed(dlsim(ss, dt, u, t, last_double(t, given)))

\* dlti on the transfer function tf that normalize returned or raised
dlti_normalized(tf, dt, u, t, given) ==
  IF ~ tf.ok THEN tf
  ELSE IF Len(t) = 0 THEN Raise("IndexError")
  ELSE dlti_simulated(tf2ss(tf.num, tf.den), dt, u, t, given)

dlti_response(b, a, dt, u, t, given) ==
  dlti_normalized(normalize(b, a), dt, u, t, given)

(***************************************************************************)
(* SystemAnalyzer: the responses.                                          *)
(***************************************************************************)
\* the default time vector: np.linspace(0, 2.0, int(2.0 * self.fs),
\* endpoint=False), as [ok, v]
default_t(self) ==
  linspace(Zero, Int2Num(2), sample_count(Int2Num(2), self.fs), FALSE)

\* the time vector of a response: the one given, or the default one
time_vector(self, t_arg) ==
  IF t_arg.given THEN [ok |-> TRUE, v |-> t_arg.v] ELSE default_t(self)

unit_impulse(N) == [i \in 1..N |-> IF i = 1 THEN One ELSE Zero]

unit_step(N) == [i \in 1..N |-> One]

\* lfilter on an input the caller built, returned with the caller's t
\* what lfilter returned or raised, returned with the caller's t
with_time(r, t) == IF r.ok THEN [ok |-> TRUE, t |-> t, y |-> Array(r.y)] ELSE r

filtered(b, a, x, t) == with_time(lfilter(b, a, x), t)

\* the try block of the proper branch: dlti(b, a, dt=1/self.fs), where the
\* division raises ZeroDivisionError for fs = 0, then dimpulse / dstep
proper_response(self, b, a, u, t, given) ==
  IF IsZero(self.fs) THEN Raise("ZeroDivisionError")
  ELSE dlti_response(b, a, DoubleDiv(OneFloat, ToDouble(self.fs)), u, t, given)

\* try: ... except Exception: ..., r being what the try block returned or
\* raised and handled what the except block returns or raises
try_except(r, handled) == IF r.ok THEN r ELSE handled

\* h = lfilter(b, a, impulse) on impulse = np.zeros(N) with impulse[0] = 1.0,
\* an assignment that raises for N = 0
impulse_lfilter(b, a, t) ==
  IF Len(t) = 0 THEN Raise("IndexError: index 0 is out of bounds")
  ELSE filtered(b, a, unit_impulse(Len(t)), t)

\* impulse_response below "if t is None", t being tv = [ok, v] or the
\* exception np.linspace raised
impulse_response_on(self, b, a, tv, given) ==
  IF ~ tv.ok THEN tv
  ELSE IF Len(a) = 1 /\ Len(b) = 1
  THEN IF Len(tv.v) = 0 THEN Raise("IndexError: index 0 is out of bounds")
       ELSE [ok |-> TRUE, t |-> tv.v,
             y |-> Array([i \in 1..Len(tv.v) |->
                            IF i = 1 THEN Div(b[1], a[1]) ELSE Zero])]
  ELSE IF Len(b) > Len(a) THEN impulse_lfilter(b, a, tv.v)
  ELSE try_except(proper_response(self, b, a, unit_impulse(Len(tv.v)), tv.v, given),
                  impulse_lfilter(b, a, tv.v))

\* impulse_response(b, a, t); t = None is an omitted time vector
impulse_response(self, b, a, t_arg) ==
  impulse_response_on(self, b, a, time_vector(self, t_arg), t_arg.given)

\* s = lfilter(b, a, step_input) on step_input = np.ones(N)
step_lfilter(b, a, t) == filtered(b, a, unit_step(Len(t)), t)

\* step_response below "if t is None"
step_response_on(self, b, a, tv, given) ==
  IF ~ tv.ok THEN tv
  ELSE IF Len(a) = 1 /\ Len(b) = 1
  THEN [ok |-> TRUE, t |-> tv.v,
        y |-> Array([i \in 1..Len(tv.v) |-> Div(b[1], a[1])])]
  ELSE IF Len(b) > Len(a) THEN step_lfilter(b, a, tv.v)
  ELSE try_except(proper_response(self, b, a, unit_step(Len(tv.v)), tv.v, given),
                  step_lfilter(b, a, tv.v))

\* step_response(b, a, t)
step_response(self, b, a, t_arg) ==
  step_response_on(self, b, a, time_vector(self, t_arg), t_arg.given)

\* scipy.signal.freqz(b, a, worN=n_points, fs) for non-empty b raises when a
\* is empty; otherwise n_points frequencies i*(fs/2)/n_points and the response
\* at each, which stays symbolic
freqz(b, a, worN, fs) ==
  IF Len(a) = 0 THEN Raise("IndexError")
  ELSE LET w == [i \in 1..worN |->
                   Div(Mul(Int2Num(i - 1), Div(fs, Int2Num(2))), Int2Num(worN))]
       IN  [ok |-> TRUE, w |-> w, h |-> MapSeq(LAMBDA wi : Sym("H", <<b, a, wi>>), w)]

\* the grid of the except branch: n_points // 2 + 1 points from 0 to fs/2
fallback_grid(self, n_points) ==
  linspace(Zero, Div(self.fs, Int2Num(2)), (n_points \div 2) + 1, TRUE)

\* frequency_response(b, a, n_points); the linspace of the except branch is
\* inside no try
frequency_response_on(r, w) ==
  IF r.ok
  THEN [ok |-> TRUE, w |-> r.w,
        h |-> MapSeq(LAMBDA v : Sym("nan_to_num", <<v>>), r.h), fallback |-> FALSE]
  ELSE IF ~ w.ok THEN w
  ELSE [ok |-> TRUE, w |-> w.v, h |-> MapSeq(LAMBDA wi : Zero, w.v),
        fallback |-> TRUE]

frequency_response(self, b, a, n_points) ==
  frequency_response_on(freqz(b, a, n_points, self.fs), fallback_grid(self, n_points))

\* apply_system without its guard on the empty input
lfilter_returned(r) == IF r.ok THEN [ok |-> TRUE, y |-> Array(r.y)] ELSE r

apply_system_unguarded(b, a, input_signal) ==
  IF Len(a) = 0 THEN Raise("IndexError")
  ELSE lfilter_returned(lfilter(b, a, input_signal))

\* apply_system(b, a, input_signal)
apply_system(b, a, input_signal) ==
  IF Len(input_signal) = 0 THEN [ok |-> TRUE, y |-> Array(<<>>)]
  ELSE lfilter_returned(lfilter(b, a, input_signal))

(***************************************************************************)
(* The responses under their callers: a SystemAnalyzer, a system (b, a)    *)
(* and one argument are fixed, then the responses are asked for.           *)
(***************************************************************************)
ResponseFs == {One, Int2Num(2), Frac(5, 4)}

CoefValues == {Int2Num(-1), Zero, Int2Num(2)}

CoefSeqs == SeqsUpTo(CoefValues, MaxCoefLen) \ {<<>>}

\* denominators of at most two coefficients (a gain or a first-order
\* recursion, as the Differentiator and the Integrator have) that the filter
\* accepts or rejects with an exception: a[0] = 0 only in front of a further
\* coefficient
Denominators ==
  {a \in SeqsUpTo(CoefValues, 2) \ {<<>>} : Len(a) >= 2 \/ ~ IsZero(a[1])}

\* denominators tried only where no filtering takes place
DegenerateDenominators == {<<>>, <<Zero>>}

\* systems built by create_system
DesignRequests ==
  {<<"Moving Average", [window_size |-> Int2Num(k)]>> : k \in 1..MaxWindow} \cup
  {<<"Differentiator", [alpha |-> Frac(1, 2)]>>,
   <<"Integrator", [beta |-> Frac(1, 2)]>>,
   <<"Custom System", [numerator |-> "[1]", denominator |-> "[1, -0.5]"]>>}

Coefficients(r) == <<r.b, r.a>>

DesignedSystems ==
  {Coefficients(create_system(SystemAnalyzer(Int2Num(1000)), q[1], q[2])) :
     q \in DesignRequests}

Systems == (CoefSeqs \X Denominators) \cup DesignedSystems

\* time vectors of N samples, N = 0 or N >= 2, starting at 0 with step 1/fs,
\* 1/(2 fs), 2/fs or 3/fs, and one that ends before 0, at -1/(2 fs)
TimeVectors(fs) ==
  {linspace(Zero, Mul(Int2Num(N), h), N, FALSE).v :
     N \in (0..MaxT) \ {1},
     h \in {Div(One, fs), Div(One, Mul(Int2Num(2), fs)), Div(Int2Num(2), fs),
            Div(Int2Num(3), fs)}} \cup
  {<<Neg(Div(One, fs)), Neg(Div(One, Mul(Int2Num(2), fs)))>>}

InputSignals ==
  {[i \in 1..L |-> v] : L \in 0..MaxT, v \in {One, Int2Num(-2)}} \cup
  {[i \in 1..L |-> Int2Num(i)] : L \in 2..MaxT}

ResponseArgs(fs) ==
  {[kind |-> "t", t |-> t] : t \in Optional(TimeVectors(fs))} \cup
  {[kind |-> "n", n |-> n] : n \in 0..MaxPoints} \cup
  {[kind |-> "x", x |-> x] : x \in InputSignals}

\* no filtering takes place: a frequency response, or an empty input signal
NoFiltering(arg) == arg.kind = "n" \/ (arg.kind = "x" /\ Len(arg.x) = 0)

InitResp ==
  /\ \E fs \in ResponseFs :
       /\ analyzer = SystemAnalyzer(fs)
       /\ \E arg \in ResponseArgs(fs) :
            \/ \E sys \in Systems :
                 call = [op |-> "SystemAnalyzer", b |-> sys[1], a |-> sys[2], arg |-> arg]
            \/ /\ NoFiltering(arg)
               /\ \E b \in CoefSeqs, a \in DegenerateDenominators :
                    call = [op |-> "SystemAnalyzer", b |-> b, a |-> a, arg |-> arg]
  /\ gen = SignalGenerator(One, Zero).self
  /\ ret = [ok |-> TRUE]
  /\ heap = <<>>
  /\ gui = <<>>

ImpulseResponse ==
  /\ call.arg.kind = "t"
  /\ call' = [call EXCEPT !.op = "impulse_response"]
  /\ ret' = impulse_response(analyzer, call.b, call.a, call.arg.t)
  /\ UNCHANGED <<gen, analyzer, heap, gui>>

StepResponse ==
  /\ call.arg.kind = "t"
  /\ call' = [call EXCEPT !.op = "step_response"]
  /\ ret' = step_response(analyzer, call.b, call.a, call.arg.t)
  /\ UNCHANGED <<gen, analyzer, heap, gui>>

FrequencyResponse ==
  /\ call.arg.kind = "n"
  /\ call' = [call EXCEPT !.op = "frequency_response"]
  /\ ret' = frequency_response(analyzer, call.b, call.a, call.arg.n)
  /\ UNCHANGED <<gen, analyzer, heap, gui>>

ApplySystem ==
  /\ call.arg.kind = "x"
  /\ call' = [call EXCEPT !.op = "apply_system"]
  /\ ret' = apply_system(call.b, call.a, call.arg.x)
  /\ UNCHANGED <<gen, analyzer, heap, gui>>

NextResp == ImpulseResponse \/ StepResponse \/ FrequencyResponse \/ ApplySystem

SpecResp == InitResp /\ [][NextResp]_vars

(***************************************************************************)
(* The objects with their storage: every numpy array is an object of the   *)
(* heap, self.t is a reference to one, and the Signals a caller keeps are  *)
(* references to the arrays generate returned.                             *)
(***************************************************************************)
\* expressions that write into t, which eval is handed as self.t itself
InPlaceFunctions == {"np.add(t, 1.0, out=t)", "t.fill(0)"}

\* eval(func_str, {"np": np, "t": self.t}) with its effect on the array t:
\* np.add(..., out=t) returns t after adding in place; t.fill(0) returns None
\* after zeroing t, and None + dc_offset then raises
eval_object(func_str, t) ==
  CASE func_str = "np.add(t, 1.0, out=t)" ->
         LET shifted == MapSeq(LAMBDA ti : Add(ti, One), t)
         IN  [ok |-> TRUE, sym |-> FALSE, v |-> Array(shifted), t_after |-> shifted]
    [] func_str = "t.fill(0)" ->
         [ok |-> FALSE, error |-> "TypeError",
          t_after |-> MapSeq(LAMBDA ti : Zero, t)]
    [] OTHER -> eval_function(func_str, t) @@ [t_after |-> t]

\* generate(signal_type, **kwargs) as a method call: the result and the
\* generator after it; only the eval of a Custom Function touches self.t
\* the Custom Function branch after eval has returned or raised r
evaluated_object(self, r, dc_offset) ==
  [self |-> [self EXCEPT !.t = r.t_after],
   ret |-> IF ~ r.ok THEN Raise("ValueError: Invalid custom function")
           ELSE [ok |-> TRUE, t |-> r.t_after,
                 x |-> IF r.sym THEN SymOffset(r.v, dc_offset)
                       ELSE AddOffset(r.v, dc_offset)]]

generate_object(self, signal_type, kwargs) ==
  IF signal_type = "Custom Function"
  THEN evaluated_object(self,
                        eval_object(Get(kwargs, "function", "np.sin(2*np.pi*t)"), self.t),
                        Get(kwargs, "dc_offset", Zero))
  ELSE [self |-> self, ret |-> generate(self, signal_type, kwargs)]

\* a new array object holding data: <<the heap with it, its address>>
alloc(objs, data) == <<Append(objs, data), Len(objs) + 1>>

\* self.t.copy(): a new object with the contents of the object at addr
copy(objs, addr) == alloc(objs, objs[addr])

ObjTypes == {"Impulse", "Custom Function", "Chirp", "sine wave"}

ObjKwargs(signal_type) ==
  CASE signal_type = "Custom Function" ->
         {[function |-> f, dc_offset |-> One] : f \in {"t", "t +"} \cup InPlaceFunctions}
    [] signal_type = "Impulse" -> {NoKwargs}
    [] OTHER -> {NoKwargs, [function |-> "t", dc_offset |-> One]}

ObjSystemTypes == {"Moving Average", "Notch Filter", "moving average"}

ObjSystemKwargs == {NoKwargs, [window_size |-> Int2Num(2)]}

InitObj ==
  /\ gen = SignalGenerator(Int2Num(2), One).self
  /\ analyzer = SystemAnalyzer(Int2Num(1000))
  /\ call = [op |-> "SignalGenerator"]
  /\ ret = [ok |-> TRUE]
  /\ heap = [objs |-> <<gen.t>>, self_t |-> 1, held |-> <<>>]
  /\ gui = <<>>

\* set_parameters binds self.t to a new array
\* self.t is bound to the array at address a[2] of the heap a[1]
Bound(a) == [heap EXCEPT !.objs = a[1], !.self_t = a[2]]

\* set_parameters has returned or raised r
ParametersSet(r) ==
  /\ gen' = r.self
  /\ heap' = IF r.ret.ok THEN Bound(alloc(heap.objs, r.self.t)) ELSE heap
  /\ ret' = r.ret

ObjSetParameters ==
  \E fs \in Optional({One}), duration \in Optional({Frac(1, 2)}) :
    /\ Len(heap.objs) < MaxObjects
    /\ ParametersSet(set_parameters(gen, fs, duration))
    /\ call' = [op |-> "set_parameters", fs |-> fs, duration |-> duration]
    /\ UNCHANGED <<analyzer, gui>>

\* generate: eval may write into the object of self.t; on success the caller
\* is returned a copy of self.t and a new array x (or a scalar, x = 0 here),
\* and keeps them
\* the caller keeps the Signal signal, whose arrays are at ct[2] and cx[2]
Kept(signal, ct, cx) ==
  [heap EXCEPT !.objs = cx[1],
               !.held = Append(@, [t |-> ct[2], x |-> cx[2],
                                   was_t |-> signal.t, was_x |-> signal.x.data])]

\* the array x of the Signal is allocated behind the copy ct of self.t
Returned(signal, ct) ==
  Kept(signal, ct,
       IF signal.x.ndim = 1 THEN alloc(ct[1], signal.x.data) ELSE <<ct[1], 0>>)

\* generate has run to r = [self, ret], written being the heap after eval
Written(r, written) ==
  /\ r.ret.ok => (Len(heap.held) < MaxHeld /\ Len(heap.objs) < MaxObjects)
  /\ gen' = r.self
  /\ ret' = r.ret
  /\ heap' = IF ~ r.ret.ok THEN [heap EXCEPT !.objs = written]
             ELSE Returned(r.ret, copy(written, heap.self_t))

\* eval wrote r.self.t into the array that self.t names
Generated(r) == Written(r, [heap.objs EXCEPT ![heap.self_t] = r.self.t])

ObjGenerate ==
  \E signal_type \in ObjTypes :
    \E kwargs \in ObjKwargs(signal_type) :
      /\ Generated(generate_object(gen, signal_type, kwargs))
      /\ call' = [op |-> "generate", signal_type |-> signal_type, kwargs |-> kwargs]
      /\ UNCHANGED <<analyzer, gui>>

\* the caller writes 7 into the first element of an array of a Signal it keeps
CallerWrites ==
  \E k \in 1..Len(heap.held), which \in {"t", "x"} :
    LET addr == IF which = "t" THEN heap.held[k].t ELSE heap.held[k].x
    IN  /\ addr > 0
        /\ Len(heap.objs[addr]) > 0
        /\ LET data == [heap.objs[addr] EXCEPT ![1] = Int2Num(7)]
           IN  /\ heap' = [heap EXCEPT
                             !.objs[addr] = data,
                             !.held[k] = IF which = "t" THEN [@ EXCEPT !.was_t = data]
                                         ELSE [@ EXCEPT !.was_x = data]]
               /\ gen' = IF addr = heap.self_t THEN [gen EXCEPT !.t = data] ELSE gen
        /\ call' = [op |-> "write", signal |-> k, array |-> which]
        /\ ret' = [ok |-> TRUE]
        /\ UNCHANGED <<analyzer, gui>>

\* create_system reads self.fs and assigns nothing
ObjCreateSystem ==
  \E system_type \in ObjSystemTypes, kwargs \in ObjSystemKwargs :
    /\ call' = [op |-> "create_system", system_type |-> system_type, kwargs |-> kwargs]
    /\ ret' = create_system(analyzer, system_type, kwargs)
    /\ UNCHANGED <<gen, analyzer, heap, gui>>

NextObj == ObjSetParameters \/ ObjGenerate \/ CallerWrites \/ ObjCreateSystem

SpecObj == InitObj /\ [][NextObj]_vars

(***************************************************************************)
(* The main window: MainWindow.__init__ builds the SignalPanel, the        *)
(* SystemPanel and the PlotPanel, connects the panels' signals to the      *)
(* PlotPanel's slots and sets up the plots; then the user edits widgets.   *)
(* A connection is direct: emit runs the connected slots in the order of   *)
(* their connection before it returns.                                     *)
(***************************************************************************)
DEFAULT_SAMPLING_RATE == Int2Num(1000)

DEFAULT_DURATION == Int2Num(2)

\* MainWindow.__init__ without its last statement
MainWindow_init_no_setup == <<"SignalPanel", "SystemPanel", "PlotPanel", "connect">>

\* the statements of MainWindow.__init__ that touch the panels, in order
MainWindow_init ==
  <<"SignalPanel", "SystemPanel", "PlotPanel", "connect", "setup_plots">>

\* the widgets setup_default_params creates for a signal type, as the kwargs
\* update_signal reads from them
SignalParams(signal_type) ==
  LET common == [amplitude |-> One, dc_offset |-> Zero]
      wave   == [amplitude |-> One, dc_offset |-> Zero,
                 frequency |-> One, phase |-> Zero]
  IN
  CASE signal_type \in {"Sine Wave", "Cosine Wave", "Sawtooth Wave"} -> wave
    [] signal_type = "Square Wave" ->
         [amplitude |-> One, dc_offset |-> Zero, frequency |-> One, phase |-> Zero,
          duty_cycle |-> Frac(1, 2)]
    [] signal_type = "Triangle Wave" ->
         [amplitude |-> One, dc_offset |-> Zero, frequency |-> One, phase |-> Zero,
          width |-> Frac(1, 2)]
    [] signal_type = "Exponential Decay" ->
         [amplitude |-> One, dc_offset |-> Zero, frequency |-> One, phase |-> Zero,
          decay_rate |-> One]
    [] signal_type = "Unit Step" ->
         [amplitude |-> One, dc_offset |-> Zero, step_time |-> Zero]
    [] signal_type = "Impulse" ->
         [amplitude |-> One, dc_offset |-> Zero, impulse_time |-> Zero]
    [] signal_type = "Gaussian Pulse" ->
         [amplitude |-> One, dc_offset |-> Zero, frequency |-> One, phase |-> Zero,
          center |-> Div(DEFAULT_DURATION, Int2Num(2)), std_dev |-> Frac(1, 10)]
    [] signal_type = "Custom Function" ->
         [amplitude |-> One, dc_offset |-> Zero, function |-> "np.sin(2*np.pi*t)"]
    [] OTHER -> common

\* the widgets setup_default_params creates for a system type, as the kwargs
\* update_system reads from them
SystemParams(system_type) ==
  CASE system_type \in {"Low-pass Filter", "High-pass Filter"} ->
         [cutoff |-> Int2Num(10), order |-> Int2Num(4)]
    [] system_type = "Band-pass Filter" ->
         [cutoff |-> Int2Num(10), order |-> Int2Num(4),
          lowcut |-> Int2Num(5), highcut |-> Int2Num(15)]
    [] system_type = "Moving Average" -> [window_size |-> Int2Num(5)]
    [] system_type = "Custom System" -> [numerator |-> "[1]", denominator |-> "[1, -0.5]"]
    [] OTHER -> NoKwargs

\* PlotPanel.__init__
PlotPanel ==
  [input_signal |-> None, system_b |-> None, system_a |-> None,
   axes |-> FALSE, early |-> FALSE]

\* the drawing slots; early records a slot that ran before setup_plots had
\* created the axes it draws on
update_input_signal(plot, args) ==
  [plot EXCEPT !.input_signal = Some(args), !.early = @ \/ ~ plot.axes]

update_system_response(plot, args) ==
  [plot EXCEPT !.system_b = Some(args[1]), !.system_a = Some(args[2]),
               !.early = @ \/ ~ plot.axes]

update_frequency_response(plot, args) == update_system_response(plot, args)

update_pole_zero_plot(plot, args) == update_system_response(plot, args)

run_slot(slot, plot, args) ==
  CASE slot = "update_input_signal" -> update_input_signal(plot, args)
    [] slot = "update_system_response" -> update_system_response(plot, args)
    [] slot = "update_frequency_response" -> update_frequency_response(plot, args)
    [] slot = "update_pole_zero_plot" -> update_pole_zero_plot(plot, args)

\* signal.emit(*args): the connected slots run in order
RECURSIVE emit(_, _, _)
emit(slots, plot, args) ==
  IF Len(slots) = 0 THEN plot
  ELSE emit(Tail(slots), run_slot(slots[1], plot, args), args)

\* SystemPanel.update_system with an emit outside the try
system_emitted_anyway(r) ==
  [ret |-> r, emits |-> IF r.ok THEN <<<<r.b, r.a>>>> ELSE <<<< <<>>, <<>> >>>>]

\* self.system_updated.emit(b, a) at the end of the try block, which it does
\* not reach when create_system has raised
system_emitted(r) ==
  [ret |-> r, emits |-> IF r.ok THEN <<<<r.b, r.a>>>> ELSE <<>>]

update_system_emits_anyway(self, system_type, kwargs) ==
  system_emitted_anyway(create_system(self, system_type, kwargs))

\* SystemPanel.update_system: the result of create_system and what is emitted
update_system(self, system_type, kwargs) ==
  system_emitted(create_system(self, system_type, kwargs))

\* self.signal_generated.emit(t, x): the signal is declared with two
\* np.ndarray arguments, and emit raises TypeError, caught with the rest, when
\* x is not an array
signal_emitted(r) ==
  [ret |-> r, emits |-> IF r.ok /\ r.x.ndim = 1 THEN <<<<r.t, r.x>>>> ELSE <<>>]

\* SignalPanel.update_signal: the result of generate and what is emitted
update_signal(self, signal_type, kwargs) ==
  signal_emitted(generate(self, signal_type, kwargs))

\* what the user can choose and type
GuiSignalTypes == {"Sine Wave", "Unit Step", "Custom Function"}

GuiFunctions == {"np.sin(2*np.pi*t)", "t +", "1.0"}

GuiSystemTypes == {"Low-pass Filter", "Moving Average", "Custom System"}

GuiDenominators == {"[1, -0.5]", "[1,", "[]"}

GuiSamplingRates == {DEFAULT_SAMPLING_RATE, Int2Num(2)}

GuiDurations == {DEFAULT_DURATION, One}

\* one edit changes the value of fs_spin or that of duration_spin
GuiGlobals(fs, duration) ==
  {<<f, duration>> : f \in GuiSamplingRates \ {fs}}
    \cup {<<fs, d>> : d \in GuiDurations \ {duration}}

InEventLoop == gui.pc > Len(MainWindow_init)

AtStatement(name) == gui.pc <= Len(MainWindow_init) /\ MainWindow_init[gui.pc] = name

\* what an emission (or none) leaves of the main window g
Deliver(signal, emits, g) ==
  [g EXCEPT !.plot = IF Len(emits) = 0 THEN @
                     ELSE emit(g.connections[signal], @, emits[1]),
            !.last_emit = IF Len(emits) = 0 THEN "none" ELSE signal]

\* a handler has run update_signal or update_system with outcome u, the
\* widgets being as in g
Handled(signal, u, g) ==
  /\ ret' = u.ret
  /\ gui' = Deliver(signal, u.emits, g)

InitGui ==
  /\ gen = SignalGenerator(DEFAULT_SAMPLING_RATE, DEFAULT_DURATION).self
  /\ analyzer = SystemAnalyzer(DEFAULT_SAMPLING_RATE)
  /\ call = [op |-> "MainWindow"]
  /\ ret = [ok |-> TRUE]
  /\ heap = <<>>
  /\ gui = [pc |-> 1,
            signal_type |-> "Sine Wave", signal_params |-> SignalParams("Sine Wave"),
            system_type |-> "Low-pass Filter",
            system_params |-> SystemParams("Low-pass Filter"),
            connections |-> [signal_generated |-> <<>>, system_updated |-> <<>>],
            plot |-> PlotPanel, last_emit |-> "none"]

\* self.signal_panel = SignalPanel(): its constructor ends with update_signal
ConstructSignalPanel ==
  /\ AtStatement("SignalPanel")
  /\ gen' = SignalGenerator(DEFAULT_SAMPLING_RATE, DEFAULT_DURATION).self
  /\ call' = [op |-> "generate", signal_type |-> gui.signal_type,
              kwargs |-> gui.signal_params]
  /\ Handled("signal_generated",
             update_signal(gen', gui.signal_type, gui.signal_params),
             [gui EXCEPT !.pc = @ + 1])
  /\ UNCHANGED <<analyzer, heap>>

\* self.system_panel = SystemPanel(): its constructor ends with update_system
ConstructSystemPanel ==
  /\ AtStatement("SystemPanel")
  /\ analyzer' = SystemAnalyzer(DEFAULT_SAMPLING_RATE)
  /\ call' = [op |-> "create_system", system_type |-> gui.system_type,
              kwargs |-> gui.system_params]
  /\ Handled("system_updated",
             update_system(analyzer', gui.system_type, gui.system_params),
             [gui EXCEPT !.pc = @ + 1])
  /\ UNCHANGED <<gen, heap>>

\* self.plot_panel = PlotPanel()
ConstructPlotPanel ==
  /\ AtStatement("PlotPanel")
  /\ gui' = [gui EXCEPT !.plot = PlotPanel, !.pc = @ + 1, !.last_emit = "none"]
  /\ call' = [op |-> "PlotPanel"]
  /\ ret' = [ok |-> TRUE]
  /\ UNCHANGED <<gen, analyzer, heap>>

\* the four connect calls
Connect ==
  /\ AtStatement("connect")
  /\ gui' = [gui EXCEPT
               !.connections =
                 [signal_generated |-> <<"update_input_signal">>,
                  system_updated |-> <<"update_system_response",
                                       "update_frequency_response",
                                       "update_pole_zero_plot">>],
               !.pc = @ + 1, !.last_emit = "none"]
  /\ call' = [op |-> "connect"]
  /\ ret' = [ok |-> TRUE]
  /\ UNCHANGED <<gen, analyzer, heap>>

\* self.plot_panel.setup_plots()
SetupPlots ==
  /\ AtStatement("setup_plots")
  /\ gui' = [gui EXCEPT !.plot.axes = TRUE, !.pc = @ + 1, !.last_emit = "none"]
  /\ call' = [op |-> "setup_plots"]
  /\ ret' = [ok |-> TRUE]
  /\ UNCHANGED <<gen, analyzer, heap>>

\* the user picks another signal type: on_signal_type_changed
SelectSignalType ==
  \E signal_type \in GuiSignalTypes \ {gui.signal_type} :
    /\ InEventLoop
    /\ call' = [op |-> "generate", signal_type |-> signal_type,
                kwargs |-> SignalParams(signal_type)]
    /\ Handled("signal_generated",
               update_signal(gen, signal_type, SignalParams(signal_type)),
               [gui EXCEPT !.signal_type = signal_type,
                           !.signal_params = SignalParams(signal_type)])
    /\ UNCHANGED <<gen, analyzer, heap>>

\* the user edits the function text: textChanged runs update_signal
EditFunction ==
  /\ InEventLoop
  /\ gui.signal_type = "Custom Function"
  /\ \E func_str \in GuiFunctions \ {gui.signal_params.function} :
       /\ call' = [op |-> "generate", signal_type |-> gui.signal_type,
                   kwargs |-> [gui.signal_params EXCEPT !.function = func_str]]
       /\ Handled("signal_generated",
                  update_signal(gen, gui.signal_type, call'.kwargs),
                  [gui EXCEPT !.signal_params = call'.kwargs])
  /\ UNCHANGED <<gen, analyzer, heap>>

\* on_global_params_changed after set_parameters has returned or raised r:
\* update_signal runs only when it returned
GlobalParamsSet(r) ==
  /\ gen' = r.self
  /\ IF r.ret.ok
     THEN /\ call' = [op |-> "generate", signal_type |-> gui.signal_type,
                      kwargs |-> gui.signal_params]
          /\ Handled("signal_generated",
                     update_signal(r.self, gui.signal_type, gui.signal_params), gui)
     ELSE /\ call' = [op |-> "set_parameters"]
          /\ ret' = r.ret
          /\ gui' = [gui EXCEPT !.last_emit = "none"]

\* the user changes the sampling rate or the duration: on_global_params_changed
ChangeGlobalParams ==
  \E g \in GuiGlobals(gen.fs, gen.duration) :
    /\ InEventLoop
    /\ GlobalParamsSet(set_parameters(gen, Some(g[1]), Some(g[2])))
    /\ UNCHANGED <<analyzer, heap>>

\* the user picks another system type: on_system_type_changed
SelectSystemType ==
  \E system_type \in GuiSystemTypes \ {gui.system_type} :
    /\ InEventLoop
    /\ call' = [op |-> "create_system", system_type |-> system_type,
                kwargs |-> SystemParams(system_type)]
    /\ Handled("system_updated",
               update_system(analyzer, system_type, SystemParams(system_type)),
               [gui EXCEPT !.system_type = system_type,
                           !.system_params = SystemParams(system_type)])
    /\ UNCHANGED <<gen, analyzer, heap>>

\* the user edits the denominator text: textChanged runs update_system
EditDenominator ==
  /\ InEventLoop
  /\ gui.system_type = "Custom System"
  /\ \E text \in GuiDenominators \ {gui.system_params.denominator} :
       /\ call' = [op |-> "create_system", system_type |-> gui.system_type,
                   kwargs |-> [gui.system_params EXCEPT !.denominator = text]]
       /\ Handled("system_updated",
                  update_system(analyzer, gui.system_type, call'.kwargs),
                  [gui EXCEPT !.system_params = call'.kwargs])
  /\ UNCHANGED <<gen, analyzer, heap>>

NextGui ==
  \/ ConstructSignalPanel
  \/ ConstructSystemPanel
  \/ ConstructPlotPanel
  \/ Connect
  \/ SetupPlots
  \/ SelectSignalType
  \/ EditFunction
  \/ ChangeGlobalParams
  \/ SelectSystemType
  \/ EditDenominator

SpecGui == InitGui /\ [][NextGui]_vars

(***************************************************************************)
(* Properties of SignalGenerator (checked under SpecGen).                  *)
(***************************************************************************)
GenerateReturned == call.op = "generate" /\ ret.ok

\* C2: for every fs > 0 and duration > 0, the time vector generate returns has
\* floor(fs*duration) entries with t[i] = i / fs (constant step exactly 1/fs),
\* also when fs*duration is not an integer.
C2_TimeVectorIsIndexOverFs ==
  (GenerateReturned /\ Gt(gen.fs, Zero) /\ Gt(gen.duration, Zero)) =>
    /\ Len(ret.t) = FloorOf(Mul(gen.fs, gen.duration))
    /\ \A i \in 1..Len(ret.t) : ret.t[i] = Div(Int2Num(i - 1), gen.fs)

\* C3: whenever generate returns, for every signal type and parameter set
\* (Custom Function with a constant expression included), samples is a
\* sequence of the same length as sampleTimes.
C3_SamplesAsLongAsTimes ==
  GenerateReturned => (ret.x.ndim = 1 /\ Len(ret.x.data) = Len(ret.t))

(***************************************************************************)
(* Properties of create_system (checked under SpecSys).                    *)
(***************************************************************************)
Created(system_type) == call.op = "create_system" /\ call.system_type = system_type

Eps == Dec(1, -12)

Nyquist == Div(analyzer.fs, Int2Num(2))

NearZero(x) == Lt(AbsNum(x), Eps)

\* the coefficient texts of the Custom System call in `call`, parsed
ReqNumerator == eval_coefficients(Get(call.kwargs, "numerator", "[1]"))

ReqDenominator == eval_coefficients(Get(call.kwargs, "denominator", "[1]"))

\* C4: a Custom System fails whenever the numerator or the denominator is empty
\* after its leading zeros are trimmed (denominator [0], numerator [0, 0]) and
\* whenever the trimmed denominator has |a[0]| < 1e-12; a denominator [0, 1]
\* succeeds with a = [1].
C4_CustomRejectsEmptyAfterTrim ==
  (Created("Custom System") /\ ReqNumerator.ok /\ ReqDenominator.ok) =>
    LET b == trim_zeros(ReqNumerator.v)
        a == trim_zeros(ReqDenominator.v)
    IN  /\ (Len(b) = 0 \/ Len(a) = 0) => ~ ret.ok
        /\ (Len(a) > 0 /\ NearZero(a[1])) => ~ ret.ok
        /\ (Len(b) > 0 /\ Get(call.kwargs, "denominator", "[1]") = "[0, 1]") =>
             (ret.ok /\ ret.a = <<One>>)

\* the system types whose coefficients the model holds as numbers
Numeric == call.system_type \in {"Moving Average", "Differentiator", "Integrator",
                                 "Custom System"}

\* C5: every TransferFunction create_system returns has a non-empty
\* denominator with |a[0]| > 1e-12, and neither b nor a starts with a near-zero
\* coefficient.
C5_LeadingNearZeroTrimmed ==
  (call.op = "create_system" /\ ret.ok) =>
    /\ Len(ret.a) > 0
    /\ Gt(AbsNum(ret.a[1]), Eps)
    /\ Numeric => (Len(ret.b) > 0 /\ ~ NearZero(ret.b[1]))

\* the Nyquist frequency and the margin below it as create_system computes
\* them: self.fs / 2 and the product nyquist * 0.99 of the doubles
NyquistFloat == DoubleDiv(ToDouble(analyzer.fs), TwoFloat)

Margin == DoubleMul(NyquistFloat, MarginFactor)

\* the band edges requested by the Band-pass call in `call`, as floats
ReqLowcut == ToDouble(Get(call.kwargs, "lowcut", Int2Num(5)))

ReqHighcut == ToDouble(Get(call.kwargs, "highcut", Int2Num(15)))

ValidBand ==
  /\ DoubleLeq(LowestLowcut, ReqLowcut) /\ DoubleLess(ReqLowcut, ReqHighcut)
  /\ DoubleLeq(ReqHighcut, Margin)

\* critical frequency i of the call to butter is the frequency hz, in Hz,
\* divided by the Nyquist frequency
Handed(i, hz) == DoubleEq(ret.butter[1].Wn[i], DoubleDiv(hz, NyquistFloat))

\* the band edges lo and hi, in Hz, were handed to butter
HandedBand(lo, hi) == Handed(1, lo) /\ Handed(2, hi)

\* C6 as stated: when (lowcut, highcut) violates 0.1 <= lowcut < highcut <=
\* 0.99*Nyquist in any way the edges handed to the design are exactly 5 and 15;
\* a valid range is used unchanged.
C6_InvalidBandFallsBack ==
  Created("Band-pass Filter") =>
    IF ValidBand THEN HandedBand(ReqLowcut, ReqHighcut)
    ELSE HandedBand(FallbackLowcut, FallbackHighcut)

\* C6 as amended: lowcut is first raised to 0.1 and highcut lowered to the
\* floating-point product 0.99*Nyquist; only when the raised lowcut is then >=
\* the lowered highcut are the edges handed to the design exactly 5 and 15,
\* otherwise the clamped edges are handed over; a valid range is used
\* unchanged.
C6_BandClampedThenFallsBack ==
  Created("Band-pass Filter") =>
    LET lo == IF DoubleLess(ReqLowcut, LowestLowcut) THEN LowestLowcut ELSE ReqLowcut
        hi == IF DoubleLess(Margin, ReqHighcut) THEN Margin ELSE ReqHighcut
    IN  /\ DoubleLeq(hi, lo) => HandedBand(FallbackLowcut, FallbackHighcut)
        /\ DoubleLess(lo, hi) => HandedBand(lo, hi)
        /\ ValidBand => HandedBand(ReqLowcut, ReqHighcut)

\* C6 witness: a lowcut equal to the decimal 0.99*Nyquist, which lies below the
\* floating-point product, with a highcut above it: the highcut is lowered to
\* the product and the band between the two is handed over, not replaced.
C6_Witness ==
  /\ Created("Band-pass Filter") /\ ret.ok
  /\ Get(call.kwargs, "lowcut", Int2Num(5)) = Mul(Nyquist, Frac(99, 100))
  /\ DoubleLess(ReqLowcut, Margin) /\ DoubleLess(Margin, ReqHighcut)
  /\ HandedBand(ReqLowcut, Margin)
  /\ ~ HandedBand(FallbackLowcut, FallbackHighcut)

\* C7: for every fs > 0 and order >= 1, Band-pass construction with
\* lowcut >= highcut does not fail: the normalized edges given to the design
\* satisfy 0 < low < high < 1 and a TransferFunction is returned.
C7_InvalidOrderingNeverFails ==
  (/\ Created("Band-pass Filter") /\ DoubleLeq(ReqHighcut, ReqLowcut)
   /\ IntOf(Get(call.kwargs, "order", Int2Num(4))) >= 1) =>
    /\ ret.ok
    /\ DoubleLess(ZeroFloat, ret.butter[1].Wn[1])
    /\ DoubleLess(ret.butter[1].Wn[1], ret.butter[1].Wn[2])
    /\ DoubleLess(ret.butter[1].Wn[2], OneFloat)

\* the cutoff requested by the Low-pass or High-pass call in `call`, as a float
ReqCutoff == ToDouble(Get(call.kwargs, "cutoff", Int2Num(10)))

InUnitInterval(w) == DoubleLess(ZeroFloat, w) /\ DoubleLess(w, OneFloat)

\* the smaller of two doubles
MinDouble(a, b) == IF DoubleLess(b, a) THEN b ELSE a

\* C8 as stated: for a requested cutoff c > 0 the cutoff handed to the design
\* is min(c, 0.99*Nyquist); a High-pass cutoff <= 0 is first replaced by a
\* positive value, so the normalized cutoff is strictly between 0 and 1.
C8_CutoffIsMinWithNyquistMargin ==
  /\ (/\ Created("Low-pass Filter") \/ Created("High-pass Filter")
      /\ DoubleLess(ZeroFloat, ReqCutoff)) =>
       Handed(1, MinDouble(ReqCutoff, Margin))
  /\ Created("High-pass Filter") => InUnitInterval(ret.butter[1].Wn[1])

\* the cutoff c after the guard at Nyquist
Guarded(c) == IF DoubleLess(c, NyquistFloat) THEN c ELSE Margin

\* C8 as amended: for a requested cutoff c > 0 the cutoff handed to the design
\* is c when c < Nyquist and 0.99*Nyquist when c >= Nyquist (a c strictly
\* between 0.99*Nyquist and Nyquist passes unchanged); a High-pass cutoff <= 0
\* is first replaced by 1.0; the normalized cutoff is strictly between 0 and 1.
C8_CutoffGuardedAtNyquist ==
  /\ (/\ Created("Low-pass Filter") \/ Created("High-pass Filter")
      /\ DoubleLess(ZeroFloat, ReqCutoff)) =>
       /\ DoubleLess(ReqCutoff, NyquistFloat) => Handed(1, ReqCutoff)
       /\ DoubleLeq(NyquistFloat, ReqCutoff) => Handed(1, Margin)
       /\ InUnitInterval(ret.butter[1].Wn[1])
  /\ (Created("High-pass Filter") /\ DoubleLeq(ReqCutoff, ZeroFloat)) =>
       Handed(1, Guarded(OneFloat))
  /\ Created("High-pass Filter") => InUnitInterval(ret.butter[1].Wn[1])

\* C8 witness: a Low-pass cutoff strictly between 0.99*Nyquist and Nyquist
\* reaches the design unchanged.
C8_Witness ==
  /\ Created("Low-pass Filter") /\ ret.ok
  /\ DoubleLess(Margin, ReqCutoff) /\ DoubleLess(ReqCutoff, NyquistFloat)
  /\ Handed(1, ReqCutoff) /\ ~ Handed(1, Margin)

(***************************************************************************)
(* Properties of the responses (checked under SpecResp).                   *)
(***************************************************************************)
\* the filtering kernel as the specification states it:
\* y[n] = (sum_k b[k]*x[n-k] - sum_{k>=1} a[k]*y[n-k]) / a[0], negative
\* indices read as 0
RECURSIVE kernel_run(_, _, _, _)
kernel_run(b, a, x, y) ==
  IF Len(y) = Len(x) THEN y
  ELSE LET n == Len(y) + 1
           forward == SumSeq([k \in 1..Len(b) |->
                        IF n - k + 1 >= 1 THEN Mul(b[k], x[n - k + 1]) ELSE Zero])
           back == SumSeq([k \in 1..(Len(a) - 1) |->
                        IF n - k >= 1 THEN Mul(a[k + 1], y[n - k]) ELSE Zero])
       IN  kernel_run(b, a, x, Append(y, Div(Sub(forward, back), a[1])))

kernel(b, a, x) == kernel_run(b, a, x, <<>>)

\* the time vector the response was asked over
AskedTimes == time_vector(analyzer, call.arg.t).v

ImpulseReturned == call.op = "impulse_response" /\ ret.ok

StepReturned == call.op = "step_response" /\ ret.ok

\* C1: for every (b, a) with a[0] != 0 and every time vector t, the impulse
\* response is the filtering kernel driven by a unit impulse of length len(t)
\* and the step response is the kernel driven by a unit step, in the static
\* gain, improper and proper (state-space) branches alike.
C1_ResponsesAreKernel ==
  (Len(call.a) >= 1 /\ ~ IsZero(call.a[1])) =>
     /\ ImpulseReturned =>
          ret.y = Array(kernel(call.b, call.a, unit_impulse(Len(AskedTimes))))
     /\ StepReturned =>
          ret.y = Array(kernel(call.b, call.a, unit_step(Len(AskedTimes))))

NonDecreasing(w) == \A i \in 1..(Len(w) - 1) : Le(w[i], w[i + 1])

\* C9: frequency_response(b, a, n_points) returns a frequency array and a
\* response array of exactly n_points entries each, the frequencies
\* non-decreasing and inside [0, fs/2], on the normal path and on the fallback
\* path, whose response is all zero.
C9_FrequencyResponseHasNPoints ==
  call.op = "frequency_response" =>
     /\ ret.ok
     /\ Len(ret.w) = call.arg.n
     /\ Len(ret.h) = call.arg.n
     /\ NonDecreasing(ret.w)
     /\ \A i \in 1..Len(ret.w) : Ge(ret.w[i], Zero) /\ Le(ret.w[i], Nyquist)
     /\ ret.fallback => \A i \in 1..Len(ret.h) : ret.h[i] = Zero

\* C10: no failure inside impulse_response, step_response or
\* frequency_response reaches the caller: each call returns, and an impulse or
\* step response is an array of len(t) samples.
C10_NumericFailureNeverSurfaces ==
  /\ call.op \in {"impulse_response", "step_response", "frequency_response"} => ret.ok
  /\ (ImpulseReturned \/ StepReturned) =>
       (ret.y.ndim = 1 /\ Len(ret.y.data) = Len(AskedTimes))

\* the Moving Average create_system builds for a requested window
MovingAverage(window) ==
  create_system(analyzer, "Moving Average", [window_size |-> Int2Num(window)])

\* the windows asked for: below 1, and 1..MaxWindow
WindowRequests == (-1)..MaxWindow

IsConstant(x) == \A i \in 1..Len(x) : x[i] = x[1]

\* apply_system ran the Moving Average of this window over a constant input
AveragedConstant(window) ==
  /\ call.op = "apply_system"
  /\ call.b = MovingAverage(window).b /\ call.a = MovingAverage(window).a
  /\ IsConstant(call.arg.x)

\* C11: for every window (clamped to N >= 1) the Moving Average is b = [1/N]
\* repeated N times, a = [1]; apply_system on a constant input of value v and
\* length L gives y[n] = v for N-1 <= n < L and v*(n+1)/N for n < N-1.
C11_MovingAverageKeepsConstant ==
  \A window \in WindowRequests :
    LET N == IF window < 1 THEN 1 ELSE window
        sys == MovingAverage(window)
        x == call.arg.x
    IN  /\ sys.ok
        /\ sys.b = [i \in 1..N |-> Frac(1, N)]
        /\ sys.a = <<One>>
        /\ AveragedConstant(window) =>
             /\ ret.ok /\ ret.y.ndim = 1 /\ Len(ret.y.data) = Len(x)
             /\ \A i \in 1..Len(x) :
                  ret.y.data[i] = IF i >= N THEN x[1]
                                  ELSE Div(Mul(x[1], Int2Num(i)), Int2Num(N))

\* C11 witness: a window of at least 2 over a constant input longer than the
\* window: the first sample is in the transient, the last one is the constant.
C11_Witness ==
  \E window \in 2..MaxWindow :
    /\ AveragedConstant(window) /\ ret.ok
    /\ Len(call.arg.x) > window
    /\ ret.y.data[1] # call.arg.x[1]
    /\ ret.y.data[Len(call.arg.x)] = call.arg.x[1]

\* the system in `call` is a static gain
StaticGain == Len(call.b) = 1 /\ Len(call.a) = 1

\* C12: for a static gain (len(b) = len(a) = 1, k = b[0]/a[0]) and every time
\* vector t, impulse_response returns k at index 0 and 0 at every other index
\* and step_response returns k at every index, both of length len(t).
C12_StaticGainResponses ==
  LET k == Div(call.b[1], call.a[1])
      N == Len(AskedTimes)
  IN  /\ (StaticGain /\ call.op = "impulse_response") =>
           (ret.ok /\ ret.y = Array([i \in 1..N |-> IF i = 1 THEN k ELSE Zero]))
      /\ (StaticGain /\ call.op = "step_response") =>
           (ret.ok /\ ret.y = Array([i \in 1..N |-> k]))

\* apply_system ran on an empty input
AppliedToEmpty == call.op = "apply_system" /\ Len(call.arg.x) = 0

\* C13: apply_system(b, a, input) with an empty input returns an empty output
\* for every b and a, also an empty a or an a with a[0] = 0; no error is raised.
C13_EmptyInputGivesEmptyOutput ==
  AppliedToEmpty => (ret.ok /\ ret.y = Array(<<>>))

\* C13 witness: an empty input through coefficients lfilter rejects (an empty
\* a, or a[0] = 0) came back as an empty output.
C13_Witness ==
  /\ AppliedToEmpty /\ ret.ok /\ ret.y = Array(<<>>)
  /\ (Len(call.a) = 0 \/ IsZero(call.a[1]))

(***************************************************************************)
(* Further properties of SignalGenerator (checked under SpecGen).          *)
(***************************************************************************)
\* the step just taken was a set_parameters call
SetParametersStep == call'.op = "set_parameters"

\* the step just taken was a Gaussian Pulse generated without a center
DefaultGaussianStep ==
  /\ call'.op = "generate" /\ call'.signal_type = "Gaussian Pulse"
  /\ "center" \notin DOMAIN call'.kwargs

\* C14: set_parameters changes exactly the fields supplied and leaves an
\* omitted field at its previous value; the stored time vector then has
\* floor(fs*duration) entries for the current fs and duration; the default
\* Gaussian Pulse center is half the current duration.
C14_SetParametersFrame ==
  [][/\ SetParametersStep =>
          /\ gen'.fs = IF call'.fs.given THEN call'.fs.v ELSE gen.fs
          /\ gen'.duration = IF call'.duration.given THEN call'.duration.v
                             ELSE gen.duration
          /\ Len(gen'.t) = FloorOf(Mul(gen'.fs, gen'.duration))
          /\ analyzer' = analyzer
     /\ DefaultGaussianStep =>
          /\ ret'.ok /\ Len(ret'.x.data) = FloorOf(Mul(gen.fs, gen.duration))
          /\ \A i \in 1..Len(ret'.x.data) :
               ret'.x.data[i].args[3] = Div(gen.duration, Int2Num(2))]_vars

\* generate was called for an Impulse over a non-empty time vector
ImpulseAsked ==
  /\ call.op = "generate" /\ call.signal_type = "Impulse"
  /\ Len(gen.t) > 0

ReqAmplitude == Get(call.kwargs, "amplitude", One)

ReqImpulseTime == Get(call.kwargs, "impulse_time", Zero)

\* the distance of the returned sample time i, a double, from the requested
\* impulse time, exactly (not rounded as the code's subtraction rounds it)
Distance(i) ==
  LET d == AbsDifference(time_double(gen, i), ToDouble(ReqImpulseTime))
  IN  [neg |-> FALSE, m |-> d.m, e |-> d.e]

Nearer(i, j) == DoubleLess(Distance(i), Distance(j))

\* C15: for the Impulse type over a non-empty time vector, for every amplitude
\* A, impulse time s and dc offset D, the samples are 0 except at one index
\* i*, where the value is A; i* is the lowest index whose sample time is
\* nearest to s; D is added to no sample.
C15_ImpulseAtNearestSample ==
  ImpulseAsked =>
    /\ ret.ok /\ ret.x.ndim = 1 /\ Len(ret.x.data) = Len(gen.t)
    /\ \E nearest \in 1..Len(gen.t) :
         /\ \A j \in 1..Len(gen.t) : ~ Nearer(j, nearest)
         /\ \A j \in 1..(nearest - 1) : Nearer(nearest, j)
         /\ \A i \in 1..Len(gen.t) :
              ret.x.data[i] = IF i = nearest THEN ReqAmplitude ELSE Zero

\* C15 witness: an impulse time half way between the first two sample times
\* with amplitude 2 and dc offset 1: the first sample is 2, the second 0.
C15_Witness ==
  /\ ImpulseAsked /\ ret.ok /\ Len(gen.t) >= 2
  /\ ~ Nearer(1, 2) /\ ~ Nearer(2, 1)
  /\ Get(call.kwargs, "dc_offset", Zero) = One
  /\ ret.x.data[1] = Int2Num(2) /\ ret.x.data[2] = Zero

(***************************************************************************)
(* Further properties of create_system (checked under SpecSys).            *)
(***************************************************************************)
ReqAlpha == Get(call.kwargs, "alpha", Frac(95, 100))

ReqBeta == Get(call.kwargs, "beta", Frac(99, 100))

\* min(max(x, 0), top)
Clamped(x, top) == IF Lt(x, Zero) THEN Zero ELSE IF Gt(x, top) THEN top ELSE x

\* the pole of 1 / (1 - p z^-1), read from a = [1, -p]
Pole == Neg(ret.a[2])

InsideUnitCircle(p) == Ge(p, Zero) /\ Lt(p, One)

\* C16: for every requested alpha the Differentiator is b = [1, -1],
\* a = [1, -alpha'] with alpha' = min(max(alpha, 0), 0.999); for every
\* requested beta the Integrator is b = [1], a = [1, -beta'] with
\* beta' = min(max(beta, 0), 0.9999); the single pole lies in [0, 1).
C16_PoleClampedInsideUnitCircle ==
  /\ Created("Differentiator") =>
       /\ ret.ok /\ ret.b = <<One, Int2Num(-1)>>
       /\ ret.a = <<One, Neg(Clamped(ReqAlpha, Frac(999, 1000)))>>
       /\ InsideUnitCircle(Pole)
  /\ Created("Integrator") =>
       /\ ret.ok /\ ret.b = <<One>>
       /\ ret.a = <<One, Neg(Clamped(ReqBeta, Frac(9999, 10000)))>>
       /\ InsideUnitCircle(Pole)

\* C16 witness: a Differentiator asked for alpha = 2 has its pole at 0.999.
C16_Witness ==
  /\ Created("Differentiator") /\ ret.ok
  /\ ReqAlpha = Int2Num(2)
  /\ Pole = Frac(999, 1000)

(***************************************************************************)
(* Properties of the objects and their storage (checked under SpecObj).    *)
(***************************************************************************)
\* every Signal the caller keeps still holds what it held when it was
\* returned or last written by the caller, in storage of its own
SignalsKept ==
  \A k \in 1..Len(heap.held) :
    LET sig == heap.held[k]
    IN  /\ heap.objs[sig.t] = sig.was_t
        /\ sig.x > 0 => heap.objs[sig.x] = sig.was_x
        /\ sig.t # heap.self_t /\ sig.x # heap.self_t /\ sig.t # sig.x

GenerateStep == call'.op = "generate"

CallerWriteStep == call'.op = "write"

\* C17: a Signal is immutable once returned: generate does not change the
\* generator's fs, duration or stored time vector; the returned sample times
\* share no storage with the generator's time vector, so a later
\* set_parameters, a later generate or a caller's write into a returned array
\* changes neither a Signal returned earlier nor the generator's time vector.
C17_SignalImmutable ==
  /\ [] SignalsKept
  /\ [][GenerateStep => gen' = gen]_vars
  /\ [][CallerWriteStep => gen' = gen]_vars

\* the expressions of the model that do not parse or do not evaluate
FailingFunctions == {"t +", "foo(t)", "t.fill(0)"}

UnknownSignalStep == GenerateStep /\ call'.signal_type \notin SIGNAL_TYPES

UnknownSystemStep == call'.op = "create_system" /\ call'.system_type \notin SYSTEM_TYPES

FailingExpressionStep ==
  /\ GenerateStep /\ call'.signal_type = "Custom Function"
  /\ Get(call'.kwargs, "function", "np.sin(2*np.pi*t)") \in FailingFunctions

\* C18: generate with a signal type outside the ten recognized ones and
\* create_system with a system type outside the seven recognized ones fail
\* with the unknown-type error, for any parameters, and leave fs, duration and
\* the time vector unchanged; a Custom Function expression that does not
\* parse or evaluate fails with the invalid-expression error instead.
C18_UnknownTypeRejected ==
  [][/\ UnknownSignalStep =>
          /\ ret' = Raise("ValueError: Unknown signal type")
          /\ gen' = gen /\ analyzer' = analyzer /\ heap'.objs = heap.objs
     /\ UnknownSystemStep =>
          /\ ~ ret'.ok /\ ret'.error = "ValueError: Unknown system type"
          /\ gen' = gen /\ analyzer' = analyzer /\ heap'.objs = heap.objs
     /\ FailingExpressionStep =>
          ret' = Raise("ValueError: Invalid custom function")]_vars

\* C18 witness: an unknown signal type given a function and a dc offset was
\* rejected as an unknown type.
C18_Witness ==
  /\ call.op = "generate" /\ call.signal_type = "sine wave"
  /\ "function" \in DOMAIN call.kwargs
  /\ ret = Raise("ValueError: Unknown signal type")

(***************************************************************************)
(* Properties of the main window (checked under SpecGui).                  *)
(***************************************************************************)
SystemStep == call'.op = "create_system"

SignalStep == call'.op = "generate"

Connected(signal) == gui.connections[signal] # <<>>

\* a failed creation emits nothing and leaves the PlotPanel as it was
FailureIsSilent ==
  (SystemStep \/ SignalStep) /\ ~ ret'.ok
    => gui'.last_emit = "none" /\ gui'.plot = gui.plot

\* an emission is that of the creation that just succeeded, and once the
\* connections are made the PlotPanel stores exactly what was emitted
DeliveredIsStored ==
  /\ gui'.last_emit = "system_updated" =>
       /\ SystemStep /\ ret'.ok
       /\ Connected("system_updated") =>
            /\ gui'.plot.system_b = Some(ret'.b)
            /\ gui'.plot.system_a = Some(ret'.a)
  /\ gui'.last_emit = "signal_generated" =>
       /\ SignalStep /\ ret'.ok
       /\ Connected("signal_generated") =>
            gui'.plot.input_signal = Some(<<ret'.t, ret'.x>>)

\* nothing but a delivered emission changes what the PlotPanel stores
StoredOtherwiseKept ==
  /\ gui'.last_emit # "system_updated" =>
       /\ gui'.plot.system_b = gui.plot.system_b
       /\ gui'.plot.system_a = gui.plot.system_a
  /\ gui'.last_emit # "signal_generated" =>
       gui'.plot.input_signal = gui.plot.input_signal

\* system_b and system_a are stored together
StoredWhole == (gui.plot.system_b = None) <=> (gui.plot.system_a = None)

\* C19: when create_system raises inside update_system, or generate inside
\* update_signal, no event is emitted and the PlotPanel keeps what it stored;
\* what it stores is always the pair (the signal) of the most recent
\* successful creation that was delivered to it, never a part of one.
C19_FailedUpdateEmitsNothing ==
  /\ [] StoredWhole
  /\ [][FailureIsSilent /\ DeliveredIsStored /\ StoredOtherwiseKept]_vars

\* a denominator that create_system rejects was typed while the PlotPanel
\* showed an earlier system, and a function that generate rejects likewise
C19_Witness ==
  /\ InEventLoop
  /\ call.op = "create_system" /\ ~ ret.ok
  /\ gui.last_emit = "none"
  /\ gui.plot.system_b # None /\ gui.plot.system_a # None
  /\ gui.plot.input_signal # None

\* C20: no drawing slot of the PlotPanel runs before setup_plots has created
\* the axes: what the panels' constructors emit reaches no slot, so the
\* PlotPanel stores nothing until the constructor of the main window is done.
C20_NoSlotBeforeSetupPlots ==
  /\ ~ gui.plot.early
  /\ ~ InEventLoop =>
       /\ gui.plot.input_signal = None
       /\ gui.plot.system_b = None
       /\ gui.plot.system_a = None
  /\ InEventLoop => gui.plot.axes

\* every kind of slot has run, on axes that exist
C20_Witness ==
  /\ InEventLoop /\ gui.plot.axes
  /\ gui.plot.input_signal # None
  /\ gui.plot.system_b # None

====
